---- MODULE Spec2Model ----
(***************************************************************************)
(* Eagle Eye MVP: priority scoring, happy-block / sales-zone aggregation,  *)
(* tiered POI location with a run-scoped exclusion set, and the BestTime   *)
(* timing correction.                                                      *)
(*                                                                         *)
(* Number encodings                                                        *)
(*   scores            integers in tenths            (76.0  -> 760)        *)
(*   csv latitudes     integers in 1/100 degree      (7.04  -> 704)        *)
(*   block latitudes   integers in 1/10 degree       (7.0   -> 70)         *)
(*   zone latitudes    integers in 1e-6 degree       (7.05  -> 7050000)    *)
(*   distances         doubles in km, as the haversine formula gives them  *)
(* A pandas NaN / Python None is the empty tuple, a present value v is the *)
(* one-element tuple <<v>>.                                                *)
(* All modelled coordinates lie on one meridian (equal longitude), where   *)
(* the cosine term of the haversine formula is multiplied by zero.         *)
(***************************************************************************)
EXTENDS Integers, Sequences, FiniteSets, TLC

VARIABLES
    \* L2DatabaseProcessor.calculate_priority_score applied to one row
    sc_row, sc_score, sc_label,
    \* L2DatabaseProcessor object
    csv, df, happy_blocks_df, sales_zones_df, prioritized, last_error,
    \* when re-runs are followed (SpecRerun): whether a second processor was
    \* constructed over the csv, the first area and zone tables built, and
    \* whether each table was built again after an export wrote to the area
    \* table
    proc_hist,
    \* besttime_client.extract_peak_hours: arguments and return value
    pk_args, pk_result,
    \* the timing step: the last call, the profile it returned, and the
    \* <<cause, status>> pairs of the calls made so far
    tm_call, tm_profile, tm_log,
    \* one locate call, step by step: its arguments, its position (tier and
    \* search), the places merged for the tier, the queries sent so far, the
    \* queries that failed, and what the call returned
    loc_call, loc_pc, loc_tier, loc_search, loc_zone_places, loc_log, loc_failed, loc_result,
    \* a report generator or batch processor over its runs: the data and the
    \* provider it works with, its position, the rows selected for the run,
    \* the POI cache, the exclusion set, the POI result of each row processed
    \* in the run, the rows written, and the number of runs started
    run_env, run_pc, run_top, run_index, poi_cache, used_place_ids, run_assigned, report_data,
    run_count,
    \* _generate_nearby_happy_blocks: the area id given, the list returned,
    \* and the list returned for one of the neighbour ids it generated
    grid_id, grid_blocks, grid_back,
    \* EnhancedPOIAgent.find_poi_for_happy_block, one search centre per step:
    \* its arguments, its position, the neighbour cells generated, the next
    \* neighbour, the queries sent, those that failed, and what it returned
    ag_call, ag_pc, ag_blocks, ag_index, ag_log, ag_failed, ag_result,
    \* agent 3: the besttime_data analysed and the profile returned
    res_args, res_result,
    \* process_poi_and_timing_analysis: the blocks held, the limit argument, the selected blocks, the output so far and the call position
    happy_blocks_data, enh_limit, top_blocks, enhanced_blocks, enh_pc

runVars   == <<run_env, run_pc, run_top, run_index, poi_cache, used_place_ids, run_assigned,
               report_data, run_count>>
locVars   == <<loc_call, loc_pc, loc_tier, loc_search, loc_zone_places, loc_log, loc_failed,
               loc_result>>
timingVars == <<tm_call, tm_profile, tm_log>>
peakVars  == <<pk_args, pk_result>>
scoreVars == <<sc_row, sc_score, sc_label>>
procVars  == <<csv, df, happy_blocks_df, sales_zones_df, prioritized, last_error, proc_hist>>
gridVars  == <<grid_id, grid_blocks, grid_back>>
agentVars == <<ag_call, ag_pc, ag_blocks, ag_index, ag_log, ag_failed, ag_result>>
resVars == <<res_args, res_result>>
enhVars == <<happy_blocks_data, enh_limit, top_blocks, enhanced_blocks, enh_pc>>
vars      == <<scoreVars, procVars, peakVars, timingVars, locVars, runVars, gridVars, agentVars, resVars, enhVars>>

\* what the actions of one component leave alone
notScore  == <<procVars, peakVars, timingVars, locVars, runVars, gridVars, agentVars, resVars, enhVars>>
notProc   == <<scoreVars, peakVars, timingVars, locVars, runVars, gridVars, agentVars, resVars, enhVars>>
notPeak   == <<scoreVars, procVars, timingVars, locVars, runVars, gridVars, agentVars, resVars, enhVars>>
notTiming == <<scoreVars, procVars, peakVars, locVars, runVars, gridVars, agentVars, resVars, enhVars>>
notLoc    == <<scoreVars, procVars, peakVars, timingVars, runVars, gridVars, agentVars, resVars, enhVars>>
notRun    == <<scoreVars, procVars, peakVars, timingVars, locVars, gridVars, agentVars, resVars, enhVars>>
notGrid   == <<scoreVars, procVars, peakVars, timingVars, locVars, runVars, agentVars, resVars, enhVars>>
notAgent  == <<scoreVars, procVars, peakVars, timingVars, locVars, runVars, gridVars, resVars, enhVars>>
notRes == <<scoreVars, procVars, peakVars, timingVars, locVars, runVars, gridVars, agentVars, enhVars>>
notEnh == <<scoreVars, procVars, peakVars, timingVars, locVars, runVars, gridVars, agentVars, resVars>>

---------------------------------------------------------------------------
(* Optional values *)
None      == <<>>
Some(v)   == <<v>>
IsSome(o) == o # <<>>
Val(o)    == o[1]

(* Sequence helpers *)
RECURSIVE SumSeq(_)
SumSeq(s) == IF s = <<>> THEN 0 ELSE Head(s) + SumSeq(Tail(s))

Range(s) == {s[i] : i \in 1..Len(s)}

Abs(x) == IF x < 0 THEN 0 - x ELSE x

Digit == <<"0", "1", "2", "3", "4", "5", "6", "7", "8", "9">>

\* str(n) for n >= 0, as the sequence of its characters
RECURSIVE DigitsOf(_)
DigitsOf(n) ==
    IF n < 10 THEN <<Digit[n + 1]>>
    ELSE Append(DigitsOf(n \div 10), Digit[(n % 10) + 1])

(* A cell of a numeric csv column is empty (None), a number (Some(n)) or a *)
(* string (Text(chars)): a token that is not a number, or any token of a   *)
(* column that read_csv left as strings.                                   *)
Text(chars) == <<"text", chars>>
IsText(c)   == Len(c) = 2

(* Binary floating point. The program computes scores, means and keys in    *)
(* IEEE-754 doubles; a double is modelled exactly, as sign, mantissa and    *)
(* exponent, and every operation rounds to 53 bits, ties to even. Values    *)
(* stay far from overflow and underflow, which are not modelled.           *)

RECURSIVE Pow2(_)
Pow2(k) == IF k = 0 THEN 1 ELSE 2 * Pow2(k - 1)

\* natural numbers of any size: limbs of ten bits, least significant first
Limb == Pow2(10)

RECURSIVE BigTrim(_)
BigTrim(a) ==
    IF a # <<>> /\ a[Len(a)] = 0 THEN BigTrim(SubSeq(a, 1, Len(a) - 1)) ELSE a

RECURSIVE BigOfNat(_)
BigOfNat(n) == IF n = 0 THEN <<>> ELSE <<n % Limb>> \o BigOfNat(n \div Limb)

RECURSIVE BigToNat(_)
BigToNat(a) == IF a = <<>> THEN 0 ELSE a[1] + Limb * BigToNat(Tail(a))

LimbAt(a, i) == IF i <= Len(a) THEN a[i] ELSE 0
Rest(a)      == IF a = <<>> THEN <<>> ELSE Tail(a)

RECURSIVE BigAddCarry(_, _, _)
BigAddCarry(a, b, carry) ==
    IF a = <<>> /\ b = <<>> THEN BigOfNat(carry)
    ELSE LET s == LimbAt(a, 1) + LimbAt(b, 1) + carry
         IN  <<s % Limb>> \o BigAddCarry(Rest(a), Rest(b), s \div Limb)

BigAdd(a, b) == BigAddCarry(a, b, 0)

RECURSIVE BigSubBorrow(_, _, _)
BigSubBorrow(a, b, borrow) ==
    IF a = <<>> THEN <<>>
    ELSE LET s == a[1] - LimbAt(b, 1) - borrow
         IN  <<(s + Limb) % Limb>> \o BigSubBorrow(Tail(a), Rest(b), IF s < 0 THEN 1 ELSE 0)

\* a - b, for a >= b
BigSub(a, b) == BigTrim(BigSubBorrow(a, b, 0))

\* -1, 0 or 1 as a is below, equal to or above b
BigCmp(a, b) ==
    IF Len(a) # Len(b) THEN (IF Len(a) < Len(b) THEN -1 ELSE 1)
    ELSE LET diff == {i \in 1..Len(a) : a[i] # b[i]}
         IN  IF diff = {} THEN 0
             ELSE LET i == CHOOSE j \in diff : \A k \in diff : k <= j
                  IN  IF a[i] < b[i] THEN -1 ELSE 1

RECURSIVE BigMulCarry(_, _, _)
BigMulCarry(a, k, carry) ==
    IF a = <<>> THEN BigOfNat(carry)
    ELSE LET p == a[1] * k + carry
         IN  <<p % Limb>> \o BigMulCarry(Tail(a), k, p \div Limb)

\* a * k, for 0 <= k < 2^20
BigMul(a, k) == IF k = 0 THEN <<>> ELSE BigMulCarry(a, k, 0)

\* quotient (untrimmed) and remainder of a by n, from the top limb down
RECURSIVE BigDivStep(_, _)
BigDivStep(a, n) ==
    IF a = <<>> THEN [q |-> <<>>, r |-> 0]
    ELSE LET hi  == BigDivStep(Tail(a), n)
             cur == hi.r * Limb + a[1]
         IN  [q |-> <<cur \div n>> \o hi.q, r |-> cur % n]

\* a divided by n, for 0 < n < 2^20
TrimmedQuotient(d) == [q |-> BigTrim(d.q), r |-> d.r]
BigDivMod(a, n) == TrimmedQuotient(BigDivStep(a, n))

RECURSIVE BitLen(_)
BitLen(n) == IF n = 0 THEN 0 ELSE 1 + BitLen(n \div 2)

BigBitLen(a) == IF a = <<>> THEN 0 ELSE 10 * (Len(a) - 1) + BitLen(a[Len(a)])

\* a * 2^k
BigShl(a, k) ==
    IF a = <<>> THEN <<>>
    ELSE [i \in 1..(k \div 10) |-> 0] \o BigMul(a, Pow2(k % 10))

\* a \div 2^k
BigShr(a, k) ==
    IF k \div 10 >= Len(a) THEN <<>>
    ELSE BigDivMod(SubSeq(a, (k \div 10) + 1, Len(a)), Pow2(k % 10)).q

BigIsOdd(a) == a # <<>> /\ a[1] % 2 = 1

\* a / 2^k rounded to the nearest natural number, a half to the even one
\* q2 is a \div 2^(k-1), whose last bit is the half, and q is a \div 2^k;
\* bits of a below the half make it more than a half
RoundHalfEven(a, k, q2, q) ==
    IF BigIsOdd(q2) /\ (BigCmp(BigShl(q2, k - 1), a) # 0 \/ BigIsOdd(q))
    THEN BigAdd(q, <<1>>) ELSE q
RoundShrFrom(a, k, q2) == RoundHalfEven(a, k, q2, BigShr(q2, 1))
BigRoundShr(a, k) == IF k = 0 THEN a ELSE RoundShrFrom(a, k, BigShr(a, k - 1))

\* the exact number (-1)^neg * m * 2^e
Dyadic(neg, m, e) == [neg |-> neg, m |-> m, e |-> e]

\* float(n) of an integer
DOfInt(n) == Dyadic(n < 0, BigOfNat(IF n < 0 THEN 0 - n ELSE n), 0)

DNeg(x) == Dyadic(~x.neg, x.m, x.e)

\* x + y, exactly
\* mx and my are the mantissas of x and y in units of 2^e
DAddAligned(x, y, mx, my, e) ==
    IF x.neg = y.neg THEN Dyadic(x.neg, BigAdd(mx, my), e)
    ELSE IF BigCmp(mx, my) >= 0 THEN Dyadic(x.neg, BigSub(mx, my), e)
    ELSE Dyadic(y.neg, BigSub(my, mx), e)
DAddAt(x, y, e) == DAddAligned(x, y, BigShl(x.m, x.e - e), BigShl(y.m, y.e - e), e)
DAdd(x, y) ==
    IF x.m = <<>> THEN y
    ELSE IF y.m = <<>> THEN x
    ELSE DAddAt(x, y, IF x.e < y.e THEN x.e ELSE y.e)

\* x * k, exactly, for 0 <= k < 2^20
DMul(x, k) == Dyadic(x.neg, BigMul(x.m, k), x.e)

\* -1, 0 or 1 as x is below, equal to or above y
DSign(d) == IF d.m = <<>> THEN 0 ELSE IF d.neg THEN -1 ELSE 1
DCmp(x, y) == DSign(DAdd(x, DNeg(y)))

\* the double nearest to x, ties to the even mantissa
RoundTo53(x, len) ==
    IF len <= 53 THEN x
    ELSE Dyadic(x.neg, BigRoundShr(x.m, len - 53), x.e + (len - 53))
Round53(x) == RoundTo53(x, BigBitLen(x.m))

\* the double operations x + y, x - y, x * k and x / n (0 < n < 2^20)
FAdd(x, y) == Round53(DAdd(x, y))
FSub(x, y) == Round53(DAdd(x, DNeg(y)))
FMul(x, k) == Round53(DMul(x, k))
\* a remainder is kept as one more bit below the quotient
WithStickyBit(d) == IF d.r = 0 THEN BigShl(d.q, 1) ELSE BigAdd(BigShl(d.q, 1), <<1>>)
FDivShifted(x, n, shift) ==
    Round53(Dyadic(x.neg, WithStickyBit(BigDivMod(BigShl(x.m, shift), n)), x.e - shift - 1))
FDivOfLen(x, n, len) == FDivShifted(x, n, IF len >= 76 THEN 0 ELSE 76 - len)
FDiv(x, n) == FDivOfLen(x, n, BigBitLen(x.m))

\* the double nearest to n / d, as float(text) and a / b of two integers give
FOfRatio(n, d) == FDiv(DOfInt(n), d)

\* the integer nearest to x, a half to the even one: round(x), numpy.rint(x)
Signed(neg, mag) == IF neg THEN 0 - mag ELSE mag
Rint(x) ==
    Signed(x.neg, IF x.e >= 0 THEN BigToNat(BigShl(x.m, x.e))
                  ELSE BigToNat(BigRoundShr(x.m, 0 - x.e)))

\* Python's round(x, digits) and format(x, ".<digits>f") of a float, in
\* units of 10^-digits (scale = 10^digits): the decimal nearest to the exact
\* binary value, a half to the even digit
PyRound(x, scale) == Rint(DMul(x, scale))

\* numpy's around(x, digits), in units of 10^-digits: rint(x * 10^digits),
\* the product rounded to a double first
NpRound(x, scale) == Rint(FMul(x, scale))

\* the sum of a[i] * b[k + 1 - i] for i from lo to hi
RECURSIVE ColumnSum(_, _, _, _, _)
ColumnSum(a, b, k, lo, hi) ==
    IF lo > hi THEN 0 ELSE a[lo] * b[k + 1 - lo] + ColumnSum(a, b, k, lo + 1, hi)

\* the limbs of the number whose limb i is cols[i], which may exceed a limb
RECURSIVE Carried(_, _, _)
Carried(cols, i, carry) ==
    IF i > Len(cols) THEN BigOfNat(carry)
    ELSE <<(cols[i] + carry) % Limb>> \o Carried(cols, i + 1, (cols[i] + carry) \div Limb)

\* a * b of two natural numbers of any size (of fewer than 2^10 limbs)
BigMulBig(a, b) ==
    IF a = <<>> \/ b = <<>> THEN <<>>
    ELSE BigTrim(Carried([k \in 1..(Len(a) + Len(b) - 1) |->
                            ColumnSum(a, b, k, IF k > Len(b) THEN k + 1 - Len(b) ELSE 1,
                                      IF k < Len(a) THEN k ELSE Len(a))], 1, 0))

DAbs(x)   == Dyadic(FALSE, x.m, x.e)
\* x * 2 and x / 2, which are exact
DTwice(x) == Dyadic(x.neg, x.m, x.e + 1)
DHalf(x)  == Dyadic(x.neg, x.m, x.e - 1)

\* the double operation x * y of two doubles
FMulD(x, y) == Round53(Dyadic(x.neg # y.neg, BigMulBig(x.m, y.m), x.e + y.e))

(* math.sin and math.asin of the C library, for |x| < 2^-6. The library     *)
(* returns the double nearest to the exact value (its error is below 0.55  *)
(* units in the last place, and it was the nearest double for every        *)
(* argument compared). The power series is summed in whole units of 2^u,    *)
(* 140 bits below the leading bit of x, each term rounded down, until a    *)
(* term is below one unit: some 2^-80 of the last place of the result.     *)
FixedUnit(x) == x.e + BigBitLen(x.m) - 141
Fixed(x, u)  == BigShl(x.m, x.e - u)
\* a * b of two numbers in units of 2^u (u < 0), rounded down
FixedMul(a, b, u) == BigShr(BigMulBig(a, b), 0 - u)

\* the terms x^(2k+1) / (2k+1)! of the sine from term k on: <<the sum of
\* those added, the sum of those subtracted>>
RECURSIVE SinSeries(_, _, _, _)
SinTerm(term, k, rest) ==
    IF k % 2 = 0 THEN <<BigAdd(term, rest[1]), rest[2]>>
    ELSE <<rest[1], BigAdd(term, rest[2])>>
SinSeries(term, k, x2, u) ==
    IF term = <<>> THEN << <<>>, <<>> >>
    ELSE SinTerm(term, k,
                 SinSeries(BigDivMod(FixedMul(term, x2, u), (2 * k + 2) * (2 * k + 3)).q,
                           k + 1, x2, u))

\* the sum of the series for the fixed-point number fx
SinSum(sums) == BigSub(sums[1], sums[2])
SinFixed(x, fx, u) == Round53(Dyadic(x.neg, SinSum(SinSeries(fx, 0, FixedMul(fx, fx, u), u)), u))
SinAt(x, u) == SinFixed(x, Fixed(x, u), u)

\* math.sin(x)
sin(x) == IF x.m = <<>> THEN x ELSE SinAt(x, FixedUnit(x))

\* the terms (1*3*..*(2k-1)) / (2*4*..*2k) * x^(2k+1) / (2k+1) of the arc
\* sine from term k on; p is the term without its last divisor
RECURSIVE AsinSeries(_, _, _, _)
AsinSeries(p, k, x2, u) ==
    IF p = <<>> THEN <<>>
    ELSE BigAdd(BigDivMod(p, 2 * k + 1).q,
                AsinSeries(BigDivMod(BigMul(FixedMul(p, x2, u), 2 * k + 1), 2 * k + 2).q,
                           k + 1, x2, u))

\* math.asin(x)
AsinFixed(x, fx, u) == Round53(Dyadic(x.neg, AsinSeries(fx, 0, FixedMul(fx, fx, u), u), u))
AsinAt(x, u) == AsinFixed(x, Fixed(x, u), u)
asin(x) == IF x.m = <<>> THEN x ELSE AsinAt(x, FixedUnit(x))

\* the double pi: 884279719003555 * 2^-48, the mantissa in limbs
M_PI == Dyadic(FALSE, <<419, 545, 680, 253, 804>>, 0 - 48)

\* math.radians(x): x * (pi / 180.0)
radians(x) == FMulD(x, FDiv(M_PI, 180))

RECURSIVE GCD(_, _)
GCD(a, b) == IF b = 0 THEN a ELSE GCD(b, a % b)

\* n/d lies on a half: 2n/d is an odd integer
OnHalf(n, d) == (2 * n) % d = 0 /\ ((2 * n) \div d) % 2 = 1

\* the integer a rounding of the program gives for a double that fewer than
\* ten operations computed for the exact value n/d (0 < d < 2^20, |n/d| <
\* 2^24). Each operation errs by at most 2^-53 of its result, so the double
\* is within 2^-25 of n/d. When n/d is not on a half it is at least 1/(2d)
\* from the nearest one, and the double rounds as n/d does; when n/d is on a
\* half the double itself decides, and `of_double` is its rounding
Rounded(n, d, of_double) ==
    IF OnHalf(n, d) THEN of_double ELSE (2 * n + d) \div (2 * d)

---------------------------------------------------------------------------
(* Bounds of the model *)
MaxPort  == 10      \* port counts range over 0..MaxPort
MaxUnits == 3       \* rows of the csv file

(* Program constants *)
NEW_THRESHOLD    == 180
MEDIUM_THRESHOLD == 365
\* PRIORITY_RANGES, in dict insertion order, in tenths of a score point
PRIORITY_RANGES ==
    << [label |-> "VERY_HIGH", min |-> 800, max |-> 1000],
       [label |-> "HIGH",      min |-> 600, max |-> 800],
       [label |-> "MEDIUM",    min |-> 400, max |-> 600],
       [label |-> "LOW",       min |-> 200, max |-> 400],
       [label |-> "VERY_LOW",  min |-> 0,   max |-> 200] >>

---------------------------------------------------------------------------
(* Scoring engine *)

\* available_score: the double (sum_tol_avail / sum_tol_port) * 40 when
\* sum_tol_port > 0 (a NaN port count compares False), else 0; None is NaN
available_score(row) ==
    IF IsSome(row.sum_tol_port) /\ Val(row.sum_tol_port) > 0
    THEN IF IsSome(row.sum_tol_avail)
         THEN Some(FMul(FOfRatio(Val(row.sum_tol_avail), Val(row.sum_tol_port)), 40))
         ELSE None
    ELSE Some(DOfInt(0))

\* aging_score with the first threshold exclusive (age < 180)
aging_score_strict(row) ==
    LET aging_days == row.inservice_aging
    IN  IF ~IsSome(aging_days) THEN 12
        ELSE IF Val(aging_days) < 180 THEN 60
        ELSE IF Val(aging_days) <= 365 THEN 36
        ELSE 12

\* aging_score, in whole points: the doubles 100*0.6, 60*0.6 and 20*0.6
\* are 60.0, 36.0 and 12.0
aging_score(row) ==
    LET aging_days == row.inservice_aging
    IN  IF ~IsSome(aging_days) THEN 12
        ELSE IF Val(aging_days) <= 180 THEN 60
        ELSE IF Val(aging_days) <= 365 THEN 36
        ELSE 12

\* the TypeError of the try block: a string compared with 0, divided by
\* the port count, or compared with 180
ScoreRaises(row) ==
    IF IsText(row.sum_tol_port) THEN TRUE
    ELSE IF IsSome(row.sum_tol_port) /\ Val(row.sum_tol_port) > 0 /\ IsText(row.sum_tol_avail)
         THEN TRUE
    ELSE IsText(row.inservice_aging)

\* round(available_score + aging_score, 1), in tenths: the sum is a double
\* and round() gives the decimal nearest to it (the exact sum is
\* aging_score plus 40 * avail / port, or aging_score alone); None is NaN;
\* 0.0 when the try block raises
calculate_priority_score(row) ==
    IF ScoreRaises(row) THEN Some(0)
    ELSE LET a     == available_score(row)
             g     == aging_score(row)
             ratio == IsSome(row.sum_tol_port) /\ Val(row.sum_tol_port) > 0
             num   == IF ratio THEN 400 * Val(row.sum_tol_avail) ELSE 0
             den   == IF ratio THEN Val(row.sum_tol_port) ELSE 1
         IN  IF ratio /\ ~IsSome(row.sum_tol_avail)
             THEN None
             ELSE Some(10 * g + Rounded(num, den,
                                        PyRound(FAdd(Val(a), DOfInt(g)), 10) - 10 * g))

RECURSIVE FirstBand(_, _)
FirstBand(ranges, score) ==
    IF ranges = <<>> THEN "VERY_LOW"
    ELSE IF Head(ranges).min <= score /\ score < Head(ranges).max
         THEN Head(ranges).label
         ELSE FirstBand(Tail(ranges), score)

\* first band with min <= score < max, else 'VERY_LOW' (NaN matches no band)
get_priority_label(score) ==
    IF IsSome(score) THEN FirstBand(PRIORITY_RANGES, Val(score)) ELSE "VERY_LOW"

\* NaN <= threshold is False, so NaN is 'Old'
get_installation_status(aging_days) ==
    IF IsSome(aging_days) /\ Val(aging_days) <= NEW_THRESHOLD THEN "New"
    ELSE IF IsSome(aging_days) /\ Val(aging_days) <= MEDIUM_THRESHOLD THEN "Medium"
    ELSE "Old"

---------------------------------------------------------------------------
(* Aggregator: happy blocks (areas) and sales zones *)

\* code-point order of the strings the dataframes hold (Series.mode() sorts)
SortedStrings ==
    <<"HIGH", "LOW", "MEDIUM", "Medium", "New", "Old", "VERY_HIGH", "VERY_LOW">>
StrRank(s) == CHOOSE i \in 1..Len(SortedStrings) : SortedStrings[i] = s

RECURSIVE SetToSortedSeq(_)
SetToSortedSeq(S) ==
    IF S = {} THEN <<>>
    ELSE LET m == CHOOSE x \in S : \A y \in S : x <= y
         IN  <<m>> \o SetToSortedSeq(S \ {m})

Count(s, v) == Cardinality({i \in 1..Len(s) : s[i] = v})

\* status_series.mode().iloc[0]: the most frequent value, the smallest in
\* sorted order when several are most frequent
Mode(s) ==
    LET top == {v \in Range(s) : \A w \in Range(s) : Count(s, w) <= Count(s, v)}
    IN  CHOOSE v \in top : \A w \in top : StrRank(v) <= StrRank(w)

get_dominant_status(status_series) ==
    IF Len(status_series) > 0 THEN Mode(status_series) ELSE "Old"

get_dominant_priority(priority_series) ==
    IF Len(priority_series) > 0 THEN Mode(priority_series) ELSE "LOW"

\* the present values of a column, in row order
RECURSIVE NotNa(_)
NotNa(col) ==
    IF col = <<>> THEN <<>>
    ELSE (IF IsSome(Head(col)) THEN <<Val(Head(col))>> ELSE <<>>) \o NotNa(Tail(col))

Column(rows, f) == [i \in 1..Len(rows) |-> rows[i][f]]

\* pandas 'first': the first non-null value of the group, NaN when there is none
AggFirst(col) == IF NotNa(col) = <<>> THEN None ELSE Some(Head(NotNa(col)))

\* the doubles of a column whose values are held in units of 1/den
Doubles(vals, den) == [i \in 1..Len(vals) |-> FOfRatio(vals[i], den)]

\* the sum of a group as groupby's mean accumulates it: Kahan summation
RECURSIVE KahanSum(_, _, _)
KahanSum(vals, sumx, compensation) ==
    IF vals = <<>> THEN sumx
    ELSE LET y == FSub(Head(vals), compensation)
             t == FAdd(sumx, y)
         IN  KahanSum(Tail(vals), t, FSub(FSub(t, sumx), y))

\* the sum of a Series as Series.mean() accumulates it: one addition per
\* value, in order (a Series of fewer than 8 values)
RECURSIVE SeqSum(_, _)
SeqSum(vals, sum) ==
    IF vals = <<>> THEN sum ELSE SeqSum(Tail(vals), FAdd(sum, Head(vals)))

\* pandas groupby 'mean' (skipna) followed by DataFrame.round(1), in tenths;
\* the values of the column are in units of 1/den; NaN for an empty group
AggMeanRound(col, den) ==
    LET vals == NotNa(col)
    IN  IF vals = <<>> THEN None
        ELSE Some(Rounded(10 * SumSeq(vals), den * Len(vals),
                          NpRound(FDiv(KahanSum(Doubles(vals, den), DOfInt(0), DOfInt(0)),
                                       Len(vals)), 10)))

\* pandas 'first' followed by DataFrame.round(1), in tenths, of a value in
\* units of 1/den
FirstRound(v, den) == Rounded(10 * v, den, NpRound(FOfRatio(v, den), 10))

\* round(series.mean(), digits), in units of 1/scale (scale = 10^digits);
\* the values of the Series are in units of 1/den; the mean is a numpy
\* double, which round() rounds as numpy.around does
SeriesMeanRound(col, den, scale) ==
    LET vals == NotNa(col)
    IN  IF vals = <<>> THEN None
        ELSE Some(Rounded((scale \div GCD(scale, den)) * SumSeq(vals),
                          (den \div GCD(scale, den)) * Len(vals),
                          NpRound(FDiv(SeqSum(Doubles(vals, den), DOfInt(0)), Len(vals)),
                                  scale)))

\* load_data: rows with a null in any of the five checked columns are dropped
RowIsValid(r) ==
    /\ IsSome(r.lat_happy_block)
    /\ IsSome(r.long_happy_block)
    /\ IsSome(r.village)
    /\ IsSome(r.sum_tol_avail)
    /\ IsSome(r.inservice_aging)

NumericColumns == {"sum_tol_port", "sum_tol_avail", "inservice_aging"}

\* pd.read_csv: a numeric column with a token that is not a number is read
\* as strings, every token of it
read_csv(file) ==
    LET IsObject(f) == \E i \in 1..Len(file) : IsText(file[i][f])
        Cell(c, f)  == IF f \in NumericColumns /\ IsObject(f) /\ IsSome(c) /\ ~IsText(c)
                       THEN Text(DigitsOf(Val(c)))
                       ELSE c
    IN  [i \in 1..Len(file) |-> [f \in DOMAIN file[i] |-> Cell(file[i][f], f)]]

load_data(file) == SelectSeq(read_csv(file), RowIsValid)

\* calculate_priority_scores: the three columns are set, replacing the
\* columns of an earlier call
ScoredRow(r) ==
    [ priority_score      |-> calculate_priority_score(r),
      priority_label      |-> get_priority_label(calculate_priority_score(r)),
      installation_status |-> get_installation_status(r.inservice_aging) ] @@ r

calculate_priority_scores(rows) == [i \in 1..Len(rows) |-> ScoredRow(rows[i])]

\* _get_installation_status on a string: the comparison raises TypeError,
\* outside any try block
StatusRaises(rows) == \E i \in 1..Len(rows) : IsText(rows[i].inservice_aging)

\* the two columns set before the installation-status apply raises
PartlyScoredRow(r) ==
    [ priority_score |-> calculate_priority_score(r),
      priority_label |-> get_priority_label(calculate_priority_score(r)) ] @@ r

\* the strings of a column, concatenated in row order
RECURSIVE ConcatText(_)
ConcatText(col) ==
    IF col = <<>> THEN <<>>
    ELSE (IF IsText(Head(col)) THEN Head(col)[2] ELSE <<>>) \o ConcatText(Tail(col))

\* 'sum' of a column: the total of its numbers, the concatenation of its
\* strings when the column holds strings
AggSum(col) ==
    IF \E i \in 1..Len(col) : IsText(col[i]) THEN Text(ConcatText(col))
    ELSE Some(SumSeq(NotNa(col)))

\* one row of happy_blocks_df from the group of rows with happy_block = b
HappyBlockRow(rows, b) ==
    LET InGroup(r) == r.happy_block = Some(b)
        g == SelectSeq(rows, InGroup)
    IN  [ Happy_Block           |-> b,
          Village_Name          |-> AggFirst(Column(g, "village")),
          L2_Count              |-> Len(NotNa(Column(g, "splt_l2"))),
          Total_Ports_Available |-> AggSum(Column(g, "sum_tol_avail")),
          Priority_Score        |-> AggMeanRound(Column(g, "priority_score"), 10),
          Avg_Aging_Days        |-> AggMeanRound(Column(g, "inservice_aging"), 1),
          Latitude              |-> IF IsSome(AggFirst(Column(g, "lat_happy_block")))
                                    THEN Some(FirstRound(
                                             Val(AggFirst(Column(g, "lat_happy_block"))), 100))
                                    ELSE None,
          Installation_Status   |-> get_dominant_status(Column(g, "installation_status")),
          Priority_Label        |-> get_dominant_priority(Column(g, "priority_label")) ]

\* groupby(['happy_block']): one group per non-null key, in sorted key order
aggregate_happy_blocks(rows) ==
    LET keys == SetToSortedSeq({Val(rows[i].happy_block) :
                                 i \in {j \in 1..Len(rows) : IsSome(rows[j].happy_block)}})
    IN  [k \in 1..Len(keys) |-> HappyBlockRow(rows, keys[k])]

\* the composite zone of a village that spans several happy blocks
MultiBlockZone(blocks, village) ==
    LET InVillage(hb) == hb.Village_Name = Some(village)
        village_blocks == SelectSeq(blocks, InVillage)
        n == Len(village_blocks)
    IN  [ Sales_Zone_ID         |-> <<village, n>>,
          Village_Name          |-> Some(village),
          Happy_Block_Count     |-> n,
          Happy_Blocks          |-> Column(village_blocks, "Happy_Block"),
          L2_Count              |-> SumSeq(Column(village_blocks, "L2_Count")),
          Total_Ports_Available |-> AggSum(Column(village_blocks, "Total_Ports_Available")),
          Priority_Score        |-> SeriesMeanRound(Column(village_blocks, "Priority_Score"), 10, 10),
          Priority_Label        |-> get_dominant_priority(Column(village_blocks, "Priority_Label")),
          Avg_Aging_Days        |-> SeriesMeanRound(Column(village_blocks, "Avg_Aging_Days"), 10, 10),
          Installation_Status   |-> get_dominant_status(Column(village_blocks, "Installation_Status")),
          Central_Latitude      |-> SeriesMeanRound(Column(village_blocks, "Latitude"), 10, 1000000) ]

\* a single-block zone without the selection of single_zone_cols: the zone
\* keeps every column the area row has
SingleBlockZone_all_columns(hb) ==
    [ Sales_Zone_ID         |-> <<Val(hb.Village_Name), 1>>,
      Happy_Block_Count     |-> 1,
      Happy_Blocks          |-> <<hb.Happy_Block>>,
      Central_Latitude      |-> IF IsSome(hb.Latitude)
                                THEN Some(100000 * Val(hb.Latitude)) ELSE None ] @@ hb

\* a single-block village becomes a zone of its own
SingleBlockZone(hb) ==
    [ Sales_Zone_ID         |-> <<Val(hb.Village_Name), 1>>,
      Village_Name          |-> hb.Village_Name,
      Happy_Block_Count     |-> 1,
      Happy_Blocks          |-> <<hb.Happy_Block>>,
      L2_Count              |-> hb.L2_Count,
      Total_Ports_Available |-> hb.Total_Ports_Available,
      Priority_Score        |-> hb.Priority_Score,
      Priority_Label        |-> hb.Priority_Label,
      Avg_Aging_Days        |-> hb.Avg_Aging_Days,
      Installation_Status   |-> hb.Installation_Status,
      Central_Latitude      |-> IF IsSome(hb.Latitude)
                                THEN Some(100000 * Val(hb.Latitude)) ELSE None ]

\* groupby('Village_Name')['Happy_Block'].count() > 1, in sorted village order
multi_block_villages(blocks) ==
    SetToSortedSeq({v \in {Val(blocks[i].Village_Name) :
                             i \in {j \in 1..Len(blocks) : IsSome(blocks[j].Village_Name)}} :
                      Cardinality({i \in 1..Len(blocks) : blocks[i].Village_Name = Some(v)}) > 1})

\* create_sales_zones without the ~isin(multi_block_villages) filter: every
\* block is also added as a zone of its own
create_sales_zones_unfiltered(blocks) ==
    LET multi == multi_block_villages(blocks)
    IN  [k \in 1..Len(multi) |-> MultiBlockZone(blocks, multi[k])]
        \o [k \in 1..Len(blocks) |-> SingleBlockZone(blocks[k])]

\* the composite zones first, then the single-block zones in block order
create_sales_zones(blocks) ==
    LET multi == multi_block_villages(blocks)
        NotMulti(hb) == ~(IsSome(hb.Village_Name) /\ Val(hb.Village_Name) \in Range(multi))
        single_block_villages == SelectSeq(blocks, NotMulti)
    IN  [k \in 1..Len(multi) |-> MultiBlockZone(blocks, multi[k])]
        \o [k \in 1..Len(single_block_villages) |-> SingleBlockZone(single_block_villages[k])]

\* sort_values('Priority_Score', ascending=False): descending, rows of equal
\* score in their original order, NaN scores last
ScoreBefore(a, b) ==
    IF ~IsSome(a.Priority_Score) THEN FALSE
    ELSE IF ~IsSome(b.Priority_Score) THEN TRUE
    ELSE Val(a.Priority_Score) > Val(b.Priority_Score)

RECURSIVE InsertByScore(_, _)
InsertByScore(sorted, z) ==
    IF sorted = <<>> THEN <<z>>
    ELSE IF ScoreBefore(z, Head(sorted)) THEN <<z>> \o sorted
    ELSE <<Head(sorted)>> \o InsertByScore(Tail(sorted), z)

RECURSIVE SortByScore(_)
SortByScore(zones) ==
    IF zones = <<>> THEN <<>>
    ELSE InsertByScore(SortByScore(SubSeq(zones, 1, Len(zones) - 1)), zones[Len(zones)])

\* DataFrame.head(n) for n >= 0
HeadN(s, n) == SubSeq(s, 1, IF n < Len(s) THEN n ELSE Len(s))

\* get_prioritized_sales_zones(top_n): `if top_n:` is false for None and for 0
get_prioritized_sales_zones(zones, top_n) ==
    IF IsSome(top_n) /\ Val(top_n) # 0
    THEN HeadN(SortByScore(zones), Val(top_n))
    ELSE SortByScore(zones)

---------------------------------------------------------------------------
(* Specification SpecScore: the scorer applied to one row *)

AgeVals  == {None} \cup {Some(a) : a \in {0, 100, 180, 181, 300, 365, 366, 400}}
\* a total of 800 puts available_score on halves of a tenth that no double
\* holds (1/800 * 40 = 0.05)
ScoreRows ==
    [ sum_tol_port    : {None} \cup {Some(p) : p \in (0..MaxPort) \cup {800}},
      sum_tol_avail   : {Some(a) : a \in (0 - MaxPort)..(2 * MaxPort)},
      inservice_aging : AgeVals ]

IdleScore ==
    /\ sc_row = None
    /\ sc_score = None
    /\ sc_label = None

IdleProc ==
    /\ csv = <<>>
    /\ df = None
    /\ happy_blocks_df = None
    /\ sales_zones_df = None
    /\ prioritized = None
    /\ last_error = "none"
    /\ proc_hist = None

IdlePeak ==
    /\ pk_args = None
    /\ pk_result = None

IdleTiming ==
    /\ tm_call = None
    /\ tm_profile = None
    /\ tm_log = {}

IdleLoc ==
    /\ loc_call = None
    /\ loc_pc = "idle"
    /\ loc_tier = 0
    /\ loc_search = 0
    /\ loc_zone_places = <<>>
    /\ loc_log = <<>>
    /\ loc_failed = {}
    /\ loc_result = None

IdleRun ==
    /\ run_env = None
    /\ run_pc = "idle"
    /\ run_top = <<>>
    /\ run_index = 0
    /\ poi_cache = <<>>
    /\ used_place_ids = {}
    /\ run_assigned = <<>>
    /\ report_data = <<>>
    /\ run_count = 0

IdleGrid ==
    /\ grid_id = None
    /\ grid_blocks = None
    /\ grid_back = None

IdleAgent ==
    /\ ag_call = None
    /\ ag_pc = "idle"
    /\ ag_blocks = <<>>
    /\ ag_index = 0
    /\ ag_log = <<>>
    /\ ag_failed = {}
    /\ ag_result = None

IdleRes ==
    /\ res_args = None
    /\ res_result = None

IdleEnh ==
    /\ happy_blocks_data = <<>>
    /\ enh_limit = None
    /\ top_blocks = <<>>
    /\ enhanced_blocks = <<>>
    /\ enh_pc = "idle"

InitScore ==
    /\ \E r \in ScoreRows : sc_row = Some(r)
    /\ sc_score = None
    /\ sc_label = None
    /\ IdleProc
    /\ IdlePeak
    /\ IdleTiming
    /\ IdleLoc
    /\ IdleRun
    /\ IdleGrid
    /\ IdleAgent
    /\ IdleRes
    /\ IdleEnh

\* df['priority_score'] = calculate_priority_score(row);
\* df['priority_label'] = _get_priority_label(priority_score)
ScoreRow ==
    /\ IsSome(sc_row)
    /\ sc_label = None
    /\ sc_score' = Some(calculate_priority_score(Val(sc_row)))
    /\ sc_label' = Some(get_priority_label(calculate_priority_score(Val(sc_row))))
    /\ UNCHANGED <<sc_row, notScore>>

NextScore == ScoreRow

SpecScore == InitScore /\ [][NextScore]_vars

---------------------------------------------------------------------------
(* Properties of the scorer, under SpecScore *)

Scored == IsSome(sc_label)

\* C6: every score lies in [0, 100], and a total capacity of 0 gives an
\* availability sub-score of 0 (the score is then the urgency score alone),
\* whatever the available capacity is.
C6_ScoreInRange ==
    Scored =>
        /\ IsSome(Val(sc_score))
        /\ Val(Val(sc_score)) >= 0
        /\ Val(Val(sc_score)) <= 1000
        /\ (Val(sc_row).sum_tol_port = Some(0) =>
               Val(Val(sc_score)) \in {600, 360, 120})

\* the urgency step function as the specification states it
UrgencyOf(age) ==
    IF ~IsSome(age) THEN 12
    ELSE IF Val(age) <= 180 THEN 60
    ELSE IF Val(age) <= 365 THEN 36
    ELSE 12

\* C7: the score is availability + urgency rounded to one decimal, where
\* availability is available/total*40 (0 when total is not > 0) and urgency is
\* 60 / 36 / 12 for age <= 180 / <= 365 / above or missing; total 10,
\* available 4, age 100 scores 76.0 and is labelled HIGH.
C7_ScoreFormula ==
    Scored =>
        LET r     == Val(sc_row)
            score == Val(Val(sc_score))
            urg   == UrgencyOf(r.inservice_aging)
            total == r.sum_tol_port
        IN  /\ IsSome(Val(sc_score))
            /\ IF IsSome(total) /\ Val(total) > 0
               THEN \* |score - (400*avail/total + 10*urg)| <= 1/2 tenth
                    2 * Abs((score - 10 * urg) * Val(total) - 400 * Val(r.sum_tol_avail))
                        <= Val(total)
               ELSE score = 10 * urg
            /\ (r = [sum_tol_port |-> Some(10), sum_tol_avail |-> Some(4),
                     inservice_aging |-> Some(100)]
                  => score = 760 /\ Val(sc_label) = "HIGH")
            /\ (r.inservice_aging = Some(180) /\ total = Some(0) => score = 600)

C7_Witness ==
    /\ Scored
    /\ Val(sc_row) = [sum_tol_port |-> Some(10), sum_tol_avail |-> Some(4),
                      inservice_aging |-> Some(100)]
    /\ sc_score = Some(Some(760))
    /\ sc_label = Some("HIGH")

\* C8: the label is that of the band holding the score, with the top band
\* closed: [80,100] VERY_HIGH, [60,80) HIGH, [40,60) MEDIUM, [20,40) LOW,
\* [0,20) VERY_LOW; so the label never drops as the score rises to 100.
C8_TopBandClosed ==
    (Scored /\ IsSome(Val(sc_score)) /\ Val(Val(sc_score)) \in 0..1000) =>
        LET score == Val(Val(sc_score))
        IN  Val(sc_label) =
                IF score >= 800 THEN "VERY_HIGH"
                ELSE IF score >= 600 THEN "HIGH"
                ELSE IF score >= 400 THEN "MEDIUM"
                ELSE IF score >= 200 THEN "LOW"
                ELSE "VERY_LOW"

---------------------------------------------------------------------------
(* Specification SpecProc: one L2DatabaseProcessor over one csv file *)

\* lat_happy_block of blocks 1, 2, 3 in 1/100 degree: blocks 1 and 2 lie in
\* the same 0.1-degree cell, block 3 in the next one
BlockLat == <<702, 704, 708>>

\* a csv row; prof = (sum_tol_port, sum_tol_avail, inservice_aging):
\* <<10, 4, 100>> scores 76.0 and <<10, 10, 100>> scores 100.0
CsvRow(l2, hb, v, lat, prof) ==
    [ splt_l2          |-> l2,
      happy_block      |-> hb,
      village          |-> v,
      lat_happy_block  |-> lat,
      long_happy_block |-> Some(10050),
      sum_tol_port     |-> Some(prof[1]),
      sum_tol_avail    |-> Some(prof[2]),
      inservice_aging  |-> Some(prof[3]) ]

\* (block, village) of the clean rows: block 1 is shared by two villages,
\* village 1 spans blocks 1 and 2, village 2 has block 3 to itself
CleanRows ==
    { CsvRow(Some(1), Some(bv[1]), Some(bv[2]), Some(BlockLat[bv[1]]), <<10, 4, 100>>) :
        bv \in { <<1, 1>>, <<1, 2>>, <<2, 1>>, <<3, 2>> } }
    \cup
    { CsvRow(Some(1), Some(bv[1]), Some(bv[2]), Some(BlockLat[bv[1]]), <<10, 10, 100>>) :
        bv \in { <<2, 1>>, <<3, 2>> } }

\* rows with one field missing: the unit id, the area id, the latitude
DefectiveRows ==
    { CsvRow(None,    Some(1), Some(1), Some(BlockLat[1]), <<10, 4, 100>>),
      CsvRow(Some(1), None,    Some(1), Some(BlockLat[1]), <<10, 4, 100>>),
      CsvRow(Some(1), Some(1), Some(1), None,              <<10, 4, 100>>) }

CsvRows  == CleanRows \cup DefectiveRows
CsvFiles == UNION { [1..n -> CsvRows] : n \in 0..MaxUnits }

MaxTopN == 2
TopNs   == {None} \cup {Some(n) : n \in 0..MaxTopN}

InitProc ==
    /\ IdleScore
    /\ IdlePeak
    /\ IdleTiming
    /\ IdleLoc
    /\ IdleRun
    /\ IdleGrid
    /\ IdleAgent
    /\ IdleRes
    /\ IdleEnh
    /\ csv \in CsvFiles
    /\ df = None
    /\ happy_blocks_df = None
    /\ sales_zones_df = None
    /\ prioritized = None
    /\ last_error = "none"
    /\ proc_hist = None

\* L2DatabaseProcessor(csv_path): another processor over the same file
NewProcessor ==
    /\ IsSome(proc_hist)
    /\ df' = None
    /\ happy_blocks_df' = None
    /\ sales_zones_df' = None
    /\ prioritized' = None
    /\ last_error' = "none"
    /\ proc_hist' = Some([Val(proc_hist) EXCEPT !.second_processor = TRUE])
    /\ UNCHANGED <<csv, notProc>>

\* load_data(): read the file and drop the invalid rows; the score columns
\* are not there yet
LoadData ==
    /\ df' = Some([scored |-> FALSE, rows |-> load_data(csv)])
    /\ last_error' = "none"
    /\ UNCHANGED <<csv, proc_hist, happy_blocks_df, sales_zones_df, prioritized, notProc>>

\* calculate_priority_scores() on a loaded dataframe; on a dataframe without
\* rows apply() returns an empty column (the scoring function does not
\* raise on the row of NaN that apply tries it on) and the three columns
\* are set
CalculatePriorityScores ==
    /\ IsSome(df)
    /\ ~StatusRaises(Val(df).rows)
    /\ df' = Some([scored |-> TRUE, rows |-> calculate_priority_scores(Val(df).rows)])
    /\ last_error' = "none"
    /\ UNCHANGED <<csv, proc_hist, happy_blocks_df, sales_zones_df, prioritized, notProc>>

\* calculate_priority_scores() with df None (no apply on None): raises
CalculatePriorityScoresRaises ==
    /\ ~IsSome(df)
    /\ last_error' = "AttributeError"
    /\ UNCHANGED <<csv, proc_hist, df, happy_blocks_df, sales_zones_df, prioritized, notProc>>

\* calculate_priority_scores() on a dataframe whose inservice_aging column
\* holds strings: the score and label columns are set, then the
\* installation-status apply raises
CalculatePriorityScoresAborts ==
    /\ IsSome(df)
    /\ StatusRaises(Val(df).rows)
    /\ df' = Some([ scored |-> FALSE,
                    rows   |-> [i \in 1..Len(Val(df).rows) |-> PartlyScoredRow(Val(df).rows[i])] ])
    /\ last_error' = "TypeError"
    /\ UNCHANGED <<csv, proc_hist, happy_blocks_df, sales_zones_df, prioritized, notProc>>

\* self.happy_blocks_df['Last_Updated'] = datetime.now().strftime(...)
WithLastUpdated(blocks) ==
    [i \in 1..Len(blocks) |-> [Last_Updated |-> "now"] @@ blocks[i]]

\* the area table carries the Last_Updated column of an export
HasLastUpdated(blocks) ==
    blocks # <<>> /\ "Last_Updated" \in DOMAIN blocks[1]

\* the history after a call that built `table`: the first table built is
\* kept, and again_blocks tells that the area table was built again in the
\* place of one that an export had written its Last_Updated column to
AggregateRecorded(table) ==
    IF proc_hist = None THEN None
    ELSE Some([Val(proc_hist) EXCEPT
                 !.again_blocks = @ \/ (/\ IsSome(Val(proc_hist).first_blocks)
                                        /\ IsSome(happy_blocks_df)
                                        /\ HasLastUpdated(Val(happy_blocks_df))),
                 !.first_blocks = IF IsSome(@) THEN @ ELSE Some(table)])

\* again_zones tells that the zone table was built again from an area
\* table that carries the Last_Updated column
ZonesRecorded(table) ==
    IF proc_hist = None THEN None
    ELSE Some([Val(proc_hist) EXCEPT
                 !.again_zones = @ \/ (/\ IsSome(Val(proc_hist).first_zones)
                                       /\ HasLastUpdated(Val(happy_blocks_df))),
                 !.first_zones = IF IsSome(@) THEN @ ELSE Some(table)])

\* aggregate_happy_blocks() that adds its rows to the table of the call before
AggregateHappyBlocks_appends ==
    /\ IsSome(df)
    /\ Val(df).scored
    /\ LET table == (IF IsSome(happy_blocks_df) THEN Val(happy_blocks_df) ELSE <<>>)
                         \o aggregate_happy_blocks(Val(df).rows)
       IN  /\ happy_blocks_df' = Some(table)
           /\ proc_hist' = AggregateRecorded(table)
    /\ last_error' = "none"
    /\ UNCHANGED <<csv, df, sales_zones_df, prioritized, notProc>>

\* aggregate_happy_blocks() on a scored dataframe
AggregateHappyBlocks ==
    /\ IsSome(df)
    /\ Val(df).scored
    /\ happy_blocks_df' = Some(aggregate_happy_blocks(Val(df).rows))
    /\ proc_hist' = AggregateRecorded(aggregate_happy_blocks(Val(df).rows))
    /\ last_error' = "none"
    /\ UNCHANGED <<csv, df, sales_zones_df, prioritized, notProc>>

\* aggregate_happy_blocks() before load_data or before the score columns exist
AggregateHappyBlocksRaises ==
    /\ ~(IsSome(df) /\ Val(df).scored)
    /\ last_error' = IF IsSome(df) THEN "KeyError" ELSE "AttributeError"
    /\ UNCHANGED <<csv, proc_hist, df, happy_blocks_df, sales_zones_df, prioritized, notProc>>

\* create_sales_zones()
CreateSalesZones ==
    /\ IsSome(happy_blocks_df)
    /\ sales_zones_df' = Some(create_sales_zones(Val(happy_blocks_df)))
    /\ proc_hist' = ZonesRecorded(create_sales_zones(Val(happy_blocks_df)))
    /\ last_error' = "none"
    /\ UNCHANGED <<csv, df, happy_blocks_df, prioritized, notProc>>

CreateSalesZonesRaises ==
    /\ ~IsSome(happy_blocks_df)
    /\ last_error' = "ValueError"
    /\ UNCHANGED <<csv, proc_hist, df, happy_blocks_df, sales_zones_df, prioritized, notProc>>

\* get_prioritized_sales_zones(top_n); a zone table without rows has no
\* Priority_Score column to sort by
GetPrioritizedSalesZones ==
    /\ IsSome(sales_zones_df)
    /\ Val(sales_zones_df) # <<>>
    /\ \E top_n \in TopNs :
         prioritized' = Some([ top_n |-> top_n,
                               zones |-> get_prioritized_sales_zones(Val(sales_zones_df), top_n) ])
    /\ last_error' = "none"
    /\ UNCHANGED <<csv, proc_hist, df, happy_blocks_df, sales_zones_df, notProc>>

GetPrioritizedSalesZonesRaises ==
    /\ ~(IsSome(sales_zones_df) /\ Val(sales_zones_df) # <<>>)
    /\ last_error' = IF IsSome(sales_zones_df) THEN "KeyError" ELSE "ValueError"
    /\ UNCHANGED <<csv, proc_hist, df, happy_blocks_df, sales_zones_df, prioritized, notProc>>

\* export_enhanced_database(output_path) with the area table set and a
\* scored dataframe: the area table gets its Last_Updated column and both
\* files are written
ExportEnhancedDatabase ==
    /\ IsSome(happy_blocks_df)
    /\ IsSome(df)
    /\ Val(df).scored
    /\ happy_blocks_df' = Some(WithLastUpdated(Val(happy_blocks_df)))
    /\ last_error' = "none"
    /\ UNCHANGED <<csv, proc_hist, df, sales_zones_df, prioritized, notProc>>

\* export_enhanced_database(output_path) with the area table set and a
\* dataframe without the score columns: the Last_Updated column is added and
\* the first file written, then self.df[[..., 'priority_score', ...]] raises
ExportEnhancedDatabaseFails ==
    /\ IsSome(happy_blocks_df)
    /\ ~(IsSome(df) /\ Val(df).scored)
    /\ happy_blocks_df' = Some(WithLastUpdated(Val(happy_blocks_df)))
    /\ last_error' = IF IsSome(df) THEN "KeyError" ELSE "TypeError"
    /\ UNCHANGED <<csv, proc_hist, df, sales_zones_df, prioritized, notProc>>

ExportEnhancedDatabaseRaises ==
    /\ ~IsSome(happy_blocks_df)
    /\ last_error' = "ValueError"
    /\ UNCHANGED <<csv, proc_hist, df, happy_blocks_df, sales_zones_df, prioritized, notProc>>

NextProc ==
    \/ LoadData
    \/ CalculatePriorityScores
    \/ CalculatePriorityScoresRaises
    \/ AggregateHappyBlocks
    \/ AggregateHappyBlocksRaises
    \/ CreateSalesZones
    \/ CreateSalesZonesRaises
    \/ GetPrioritizedSalesZones
    \/ GetPrioritizedSalesZonesRaises

SpecProc == InitProc /\ [][NextProc]_vars

(* Specification SpecRerun: processors over one unchanged csv file, run    *)
(* any number of times and exported in between, with the first tables kept *)
(* for comparison                                                          *)
\* the rows of the files run again: the three areas of the two villages,
\* area 1 also under village 2 and area 3 also with another score, and a
\* row without an area id
RerunRows ==
    { CsvRow(Some(1), Some(bv[1]), Some(bv[2]), Some(BlockLat[bv[1]]), <<10, 4, 100>>) :
        bv \in { <<1, 1>>, <<1, 2>>, <<2, 1>>, <<3, 2>> } }
    \cup
    { CsvRow(Some(1), Some(3), Some(2), Some(BlockLat[3]), <<10, 10, 100>>),
      CsvRow(Some(1), None,    Some(1), Some(BlockLat[1]), <<10, 4, 100>>) }

RerunFiles == UNION { [1..n -> RerunRows] : n \in 0..MaxUnits }

InitRerun ==
    /\ IdleScore
    /\ IdlePeak
    /\ IdleTiming
    /\ IdleLoc
    /\ IdleRun
    /\ IdleGrid
    /\ IdleAgent
    /\ IdleRes
    /\ IdleEnh
    /\ csv \in RerunFiles
    /\ df = None
    /\ happy_blocks_df = None
    /\ sales_zones_df = None
    /\ prioritized = None
    /\ last_error = "none"
    /\ proc_hist = Some([ second_processor |-> FALSE,
                          first_blocks |-> None, again_blocks |-> FALSE,
                          first_zones  |-> None, again_zones  |-> FALSE ])

NextRerun ==
    \/ NewProcessor
    \/ LoadData
    \/ CalculatePriorityScores
    \/ AggregateHappyBlocks
    \/ CreateSalesZones
    \/ ExportEnhancedDatabase
    \/ ExportEnhancedDatabaseFails

SpecRerun == InitRerun /\ [][NextRerun]_vars


---------------------------------------------------------------------------
(* Properties of the processor, under SpecProc *)

\* C4: aggregation preserves the unit count: the L2_Count of the area rows
\* sums to the number of unit rows of the dataframe, also for units whose
\* unit id or area id is missing.
C4_CountPreserved ==
    (IsSome(happy_blocks_df) /\ IsSome(df)) =>
        SumSeq(Column(Val(happy_blocks_df), "L2_Count")) = Len(Val(df).rows)

\* number of (zone, position) pairs whose member is block b
Memberships(zones, b) ==
    Cardinality({ kj \in UNION { {<<k, j>> : j \in 1..Len(zones[k].Happy_Blocks)} :
                                  k \in 1..Len(zones) } :
                  zones[kj[1]].Happy_Blocks[kj[2]] = b })

BlocksOfVillage(blocks, v) == {i \in 1..Len(blocks) : blocks[i].Village_Name = v}

\* C5: the zones partition the area blocks: every block is a member of
\* exactly one zone, every member is a block, a village with several blocks
\* has one zone whose Happy_Block_Count is its number of members, and a
\* village with one block has a one-member zone.
C5_ZonesPartitionBlocks ==
    (IsSome(sales_zones_df) /\ IsSome(happy_blocks_df)) =>
        LET blocks == Val(happy_blocks_df)
            zones  == Val(sales_zones_df)
        IN  /\ \A i \in 1..Len(blocks) : Memberships(zones, blocks[i].Happy_Block) = 1
            /\ \A k \in 1..Len(zones) :
                 /\ zones[k].Happy_Block_Count = Len(zones[k].Happy_Blocks)
                 /\ Range(zones[k].Happy_Blocks) =
                      { blocks[i].Happy_Block :
                          i \in BlocksOfVillage(blocks, zones[k].Village_Name) }
            /\ \A i \in 1..Len(blocks) :
                 Cardinality({k \in 1..Len(zones) :
                                zones[k].Village_Name = blocks[i].Village_Name}) = 1

C5_Witness ==
    /\ IsSome(sales_zones_df)
    /\ IsSome(happy_blocks_df)
    /\ Len(Val(happy_blocks_df)) = 3
    /\ \E k \in 1..Len(Val(sales_zones_df)) : Val(sales_zones_df)[k].Happy_Block_Count = 2
    /\ \E k \in 1..Len(Val(sales_zones_df)) : Val(sales_zones_df)[k].Happy_Block_Count = 1

Min(a, b) == IF a < b THEN a ELSE b

\* C10: get_prioritized_sales_zones(top_n) returns exactly min(top_n, number
\* of zones) zones for every top_n >= 0 (all zones for None), they are the
\* highest-scored zones, and they come in non-increasing score order.
C10_TopNRanked ==
    (IsSome(prioritized) /\ IsSome(sales_zones_df)) =>
        LET zones  == Val(sales_zones_df)
            top_n  == Val(prioritized).top_n
            result == Val(prioritized).zones
        IN  /\ Len(result) = IF IsSome(top_n) THEN Min(Val(top_n), Len(zones))
                                               ELSE Len(zones)
            /\ \A i \in 1..Len(result) : \A j \in 1..Len(result) :
                 i < j => Val(result[i].Priority_Score) >= Val(result[j].Priority_Score)
            /\ \A i \in 1..Len(result) :
                 Cardinality({k \in 1..Len(zones) :
                    Val(zones[k].Priority_Score) > Val(result[i].Priority_Score)}) < Len(result)

---------------------------------------------------------------------------
(* Timing corrector: besttime_client.extract_peak_hours *)

\* the sentinel of a closed hour, tested at besttime_client.py line 79
CLOSED == 999

\* f"{hour:02d}:00" for 0 <= hour <= 99
FormatHour(hour) == Digit[(hour \div 10) + 1] \o Digit[(hour % 10) + 1] \o ":00"

\* the loop over hour_analysis without the != 999 test
RECURSIVE PeakHoursOfDay_keep_closed(_, _)
PeakHoursOfDay_keep_closed(hour_analysis, min_intensity) ==
    IF hour_analysis = <<>> THEN <<>>
    ELSE (IF Head(hour_analysis).intensity_nr >= min_intensity
          THEN <<FormatHour(Head(hour_analysis).hour)>> ELSE <<>>)
         \o PeakHoursOfDay_keep_closed(Tail(hour_analysis), min_intensity)

\* the loop over hour_analysis: hours that are not closed and reach
\* min_intensity, in list order
RECURSIVE PeakHoursOfDay(_, _)
PeakHoursOfDay(hour_analysis, min_intensity) ==
    IF hour_analysis = <<>> THEN <<>>
    ELSE (IF Head(hour_analysis).intensity_nr # CLOSED
             /\ Head(hour_analysis).intensity_nr >= min_intensity
          THEN <<FormatHour(Head(hour_analysis).hour)>> ELSE <<>>)
         \o PeakHoursOfDay(Tail(hour_analysis), min_intensity)

\* A decoded response body: [analysis |-> None] has no 'analysis' key;
\* otherwise the analysis is a payload [fmt, days]. fmt "list" is the list of
\* day objects, days[i] the hour_analysis of day i-1 (0 = Monday); fmt
\* "dict" is a mapping keyed by day name, days its items in insertion order.
ListAnalysis(days) == [fmt |-> "list", days |-> days]
DictAnalysis(items) == [fmt |-> "dict", days |-> items]

\* extract_peak_hours(besttime_data, day_index, min_intensity):
\* besttime_data.get('analysis', []); indexing a mapping by day_index raises
\* KeyError, which the except turns into []
extract_peak_hours(besttime_data, day_index, min_intensity) ==
    LET analysis == IF IsSome(besttime_data.analysis) THEN Val(besttime_data.analysis)
                    ELSE ListAnalysis(<<>>)
    IN  IF analysis.fmt # "list" THEN <<>>
        ELSE IF Len(analysis.days) <= day_index THEN <<>>
        ELSE HeadN(PeakHoursOfDay(analysis.days[day_index + 1], min_intensity), 3)

---------------------------------------------------------------------------
(* Specification SpecPeak: extract_peak_hours applied to one response *)

MaxHours == 4       \* hour records of a day

HourRecords == [hour : {7, 10, 18}, intensity_nr : {0, 5, CLOSED}]
DaySeries   == UNION { [1..n -> HourRecords] : n \in 0..MaxHours }

InitPeak ==
    /\ IdleScore
    /\ IdleProc
    /\ IdleTiming
    /\ IdleLoc
    /\ IdleRun
    /\ IdleGrid
    /\ IdleAgent
    /\ IdleRes
    /\ IdleEnh
    /\ \E day \in DaySeries, empty \in BOOLEAN, day_index \in {0, 1}, min_intensity \in {1, 5} :
         pk_args = Some([ besttime_data |-> [analysis |-> Some(ListAnalysis(
                                               IF empty THEN <<>> ELSE <<day>>))],
                          day_index     |-> day_index,
                          min_intensity |-> min_intensity ])
    /\ pk_result = None

ExtractPeakHours ==
    /\ IsSome(pk_args)
    /\ pk_result = None
    /\ pk_result' = Some(extract_peak_hours(Val(pk_args).besttime_data, Val(pk_args).day_index,
                                            Val(pk_args).min_intensity))
    /\ UNCHANGED <<pk_args, notPeak>>

NextPeak == ExtractPeakHours

SpecPeak == InitPeak /\ [][NextPeak]_vars

---------------------------------------------------------------------------
(* Properties of extract_peak_hours, under SpecPeak *)

PeakDays == Val(Val(pk_args).besttime_data.analysis).days
PeakDay == PeakDays[Val(pk_args).day_index + 1]
PeakDayGiven == Val(pk_args).day_index < Len(PeakDays)

\* C3: no returned hour is a closed (999) hour or an hour below
\* min_intensity: every returned 'HH:00' is the hour of a record with
\* intensity != 999 and >= min_intensity. A day of closed hours and one hour
\* below the threshold gives []; hour 18 at 5 (threshold 1) with hour 10
\* closed gives ["18:00"].
C3_NoClosedPeak ==
    IsSome(pk_result) =>
        LET peaks == Val(pk_result)
            min   == Val(pk_args).min_intensity
        IN  /\ \A i \in 1..Len(peaks) :
                 /\ PeakDayGiven
                 /\ \E j \in 1..Len(PeakDay) :
                      /\ peaks[i] = FormatHour(PeakDay[j].hour)
                      /\ PeakDay[j].intensity_nr # 999
                      /\ PeakDay[j].intensity_nr >= min
                 /\ \A j \in 1..Len(PeakDay) :
                      peaks[i] = FormatHour(PeakDay[j].hour) =>
                        \E k \in 1..Len(PeakDay) :
                          /\ PeakDay[k].hour = PeakDay[j].hour
                          /\ PeakDay[k].intensity_nr # 999
                          /\ PeakDay[k].intensity_nr >= min
            /\ (PeakDayGiven /\ min = 5
                  /\ Cardinality({j \in 1..Len(PeakDay) : PeakDay[j].intensity_nr # 999}) = 1
                  /\ (\A j \in 1..Len(PeakDay) : PeakDay[j].intensity_nr \in {0, 999})
                  => peaks = <<>>)
            /\ (PeakDayGiven /\ min = 1
                  /\ PeakDay = << [hour |-> 18, intensity_nr |-> 5],
                                  [hour |-> 10, intensity_nr |-> 999] >>
                  => peaks = <<"18:00">>)

C3_Witness ==
    /\ IsSome(pk_result)
    /\ Val(pk_args).min_intensity = 1
    /\ Val(pk_args).day_index = 0
    /\ PeakDays = << << [hour |-> 18, intensity_nr |-> 5],
                       [hour |-> 10, intensity_nr |-> 999] >> >>
    /\ Val(pk_result) = <<"18:00">>

---------------------------------------------------------------------------
(* The timing step: BestTime request, the report generator's
   _get_timing_analysis and the application's get_besttime_data *)

RECURSIVE JoinComma(_)
\* ', '.join(strs)
JoinComma(strs) ==
    IF strs = <<>> THEN ""
    ELSE IF Len(strs) = 1 THEN strs[1]
    ELSE strs[1] \o ", " \o JoinComma(Tail(strs))

RECURSIVE FormatHours(_)
\* [f"{h:02d}:00" for h in hours]
FormatHours(hours) ==
    IF hours = <<>> THEN <<>> ELSE <<FormatHour(Head(hours))>> \o FormatHours(Tail(hours))

RECURSIVE SortInts(_)
\* sorted(ints) of distinct integers
SortInts(S) ==
    IF S = {} THEN <<>>
    ELSE LET m == CHOOSE x \in S : \A y \in S : x <= y
         IN  <<m>> \o SortInts(S \ {m})

\* A provider response: a timeout (no response), or an HTTP response with a
\* status code and a body; the body is None when it is not JSON, otherwise
\* [is_object, analysis] (is_object FALSE: a JSON array).
Timeout == [kind |-> "timeout", status_code |-> 0, body |-> None]
Http(status_code, body) == [kind |-> "http", status_code |-> status_code, body |-> body]
JsonObject(analysis) == [is_object |-> TRUE, analysis |-> analysis]
JsonArray == [is_object |-> FALSE, analysis |-> None]

Returned(v) == [raised |-> FALSE, value |-> v]
Raised      == [raised |-> TRUE, value |-> None]

\* query_venue_week: _private_key() raises without a key, requests.post
\* raises on timeout, 200 and 404 both return r.json(); for any other code
\* raise_for_status() raises when it is in 400..599, and r.json() is
\* returned otherwise; r.json() raises on a body that is not JSON
query_venue_week(has_key, response) ==
    IF ~has_key THEN Raised
    ELSE IF response.kind = "timeout" THEN Raised
    ELSE IF response.status_code \notin {200, 404} /\ response.status_code \in 400..599
         THEN Raised
    ELSE IF IsSome(response.body) THEN Returned(Val(response.body)) ELSE Raised

WEEKDAYS == <<"Monday", "Tuesday", "Wednesday", "Thursday", "Friday">>
WEEKEND  == <<"Saturday", "Sunday">>

\* day in analysis / analysis[day] on the mapping format; a list of day
\* objects contains no day name
HasDay(analysis, day) ==
    analysis.fmt = "dict" /\ \E i \in 1..Len(analysis.days) : analysis.days[i][1] = day
DayData(analysis, day) ==
    analysis.days[CHOOSE i \in 1..Len(analysis.days) : analysis.days[i][1] = day][2]

\* items of a day's mapping whose key parses as an hour in 6..22; an item is
\* <<key, busy_percent>>, key None when int(hour_str) raises
BusinessItems(day_data) ==
    LET IsBusiness(item) == IsSome(item[1]) /\ Val(item[1]) >= 6 /\ Val(item[1]) <= 22
    IN  SelectSeq(day_data, IsBusiness)

RECURSIVE DaysItems(_, _)
DaysItems(analysis, days) ==
    IF days = <<>> THEN <<>>
    ELSE (IF HasDay(analysis, Head(days)) THEN BusinessItems(DayData(analysis, Head(days)))
          ELSE <<>>)
         \o DaysItems(analysis, Tail(days))

RECURSIVE SumHours(_, _)
\* all_hours[hour] = all_hours.get(hour, 0) + busy_percent, in insertion order
SumHours(all_hours, items) ==
    IF items = <<>> THEN all_hours
    ELSE LET hour == Val(Head(items)[1])
             busy == Head(items)[2]
             seen == \E i \in 1..Len(all_hours) : all_hours[i][1] = hour
             next == IF seen
                     THEN [i \in 1..Len(all_hours) |->
                             IF all_hours[i][1] = hour
                             THEN <<hour, all_hours[i][2] + busy>> ELSE all_hours[i]]
                     ELSE Append(all_hours, <<hour, busy>>)
         IN  SumHours(next, Tail(items))

\* sorted(items, key=value, reverse=True): stable
InsertByBusy(sorted, e) ==
    LET k == Cardinality({i \in 1..Len(sorted) : sorted[i][2] >= e[2]})
    IN  SubSeq(sorted, 1, k) \o <<e>> \o SubSeq(sorted, k + 1, Len(sorted))

RECURSIVE SortByBusy(_)
SortByBusy(items) ==
    IF items = <<>> THEN <<>>
    ELSE InsertByBusy(SortByBusy(SubSeq(items, 1, Len(items) - 1)), items[Len(items)])

\* _extract_peak_hours(analysis, day_type): hours as integers
_extract_peak_hours(analysis, day_type) ==
    LET days      == IF day_type = "weekday" THEN WEEKDAYS ELSE WEEKEND
        all_hours == SumHours(<<>>, DaysItems(analysis, days))
        top       == HeadN(SortByBusy(all_hours), 3)
    IN  IF all_hours = <<>>
        THEN (IF day_type = "weekday" THEN <<16, 17, 18>> ELSE <<17, 18, 19>>)
        ELSE SortInts({top[i][1] : i \in 1..Len(top)})

WEEK == WEEKDAYS \o WEEKEND

\* total and count of the busyness of one day over the hours 16..20
EveningScore(day_data) ==
    LET IsEvening(item) == IsSome(item[1]) /\ Val(item[1]) \in 16..20
        items == SelectSeq(day_data, IsEvening)
    IN  [total |-> SumSeq([i \in 1..Len(items) |-> items[i][2]]), count |-> Len(items)]

\* _get_best_day(analysis): max(day_scores, key=day_scores.get) is the first
\* day, in week order, of the highest average
_get_best_day(analysis) ==
    LET scored == { i \in 1..Len(WEEK) :
                      HasDay(analysis, WEEK[i])
                      /\ EveningScore(DayData(analysis, WEEK[i])).count > 0 }
        score(i) == EveningScore(DayData(analysis, WEEK[i]))
        Less(i, j) == score(i).total * score(j).count < score(j).total * score(i).count
    IN  IF scored = {} THEN "Wednesday"
        ELSE WEEK[CHOOSE i \in scored :
                    /\ \A j \in scored : ~Less(i, j)
                    /\ \A j \in scored : j < i => Less(j, i)]

RECURSIVE AllItems(_)
AllItems(days) ==
    IF days = <<>> THEN <<>> ELSE BusinessItems(Head(days)[2]) \o AllItems(Tail(days))

\* _get_activity_level(analysis): analysis.values() raises on a list, and
\* the except returns 'Medium'
_get_activity_level(analysis) ==
    IF analysis.fmt # "dict" THEN "Medium"
    ELSE LET items == AllItems(analysis.days)
             total_busyness == SumSeq([i \in 1..Len(items) |-> items[i][2]])
             total_hours    == Len(items)
         IN  IF total_hours = 0 THEN "Medium"
             ELSE IF total_busyness >= 75 * total_hours THEN "Very High"
             ELSE IF total_busyness >= 60 * total_hours THEN "High"
             ELSE IF total_busyness >= 40 * total_hours THEN "Medium"
             ELSE "Low"

Profile(weekday, weekend, best_day, activity_level, timing_status) ==
    [ timing_weekday |-> weekday, timing_weekend |-> weekend, best_day |-> best_day,
      activity_level |-> activity_level, timing_status |-> timing_status ]

\* default_timing of _get_timing_analysis with its status replaced
default_timing(timing_status) ==
    Profile("16:00, 17:00, 18:00", "17:00, 18:00, 19:00", "Wednesday", "Medium", timing_status)

\* EnhancedL2SalesReportGenerator._get_timing_analysis(poi_block_data)
_get_timing_analysis(poi_name, has_key, response) ==
    IF poi_name = "" THEN default_timing("no_poi")
    ELSE LET timing_result == query_venue_week(has_key, response)
         IN  IF timing_result.raised THEN default_timing("timing_error")
             ELSE IF timing_result.value.is_object /\ IsSome(timing_result.value.analysis)
                  THEN LET analysis == Val(timing_result.value.analysis)
                       IN  Profile(JoinComma(FormatHours(_extract_peak_hours(analysis, "weekday"))),
                                   JoinComma(FormatHours(_extract_peak_hours(analysis, "weekend"))),
                                   _get_best_day(analysis),
                                   _get_activity_level(analysis),
                                   "besttime_success")
             ELSE default_timing("besttime_no_data")

\* get_corrected_timing_from_besttime(besttime_data): a JSON array has no
\* .get, so extract_peak_hours returns [] and the venue_info lookup raises
get_corrected_timing_from_besttime(besttime_data) ==
    IF ~besttime_data.is_object
    THEN Profile("17:00, 18:00, 19:00", "12:00, 17:00, 18:00", "Tuesday", "Medium",
                 "besttime_fallback")
    ELSE LET weekday_peaks == extract_peak_hours(besttime_data, 0, 1)
             weekend_peaks == extract_peak_hours(besttime_data, 5, 1)
         IN  Profile(IF weekday_peaks # <<>> THEN JoinComma(weekday_peaks)
                     ELSE "17:00, 18:00, 19:00",
                     IF weekend_peaks # <<>> THEN JoinComma(weekend_peaks)
                     ELSE "12:00, 17:00, 18:00",
                     IF weekend_peaks # <<>> THEN "Saturday" ELSE "Tuesday",
                     IF Len(weekday_peaks) >= 2 THEN "High" ELSE "Medium",
                     "besttime_api_corrected")

\* EagleEyeApp.get_fallback_timing_data()
get_fallback_timing_data ==
    Profile("17:00, 18:00, 19:00", "12:00, 17:00, 18:00", "Saturday", "Medium",
            "fallback_generic")

\* the keywords of get_location_based_fallback_timing found in
\* venue_name.lower(), for the venue names of the model
VenueKeyword(venue_name) ==
    CASE venue_name = "7-Eleven Hat Yai" -> "7-eleven"
      [] venue_name = "Lotus Go Fresh"   -> "lotus"
      [] venue_name = "Big C Mini"       -> "big c"
      [] OTHER                           -> ""

\* adjust_time: hour + hour_variation kept between 6 and 22
adjust_time(hour, hour_variation) ==
    LET h == hour + hour_variation
    IN  FormatHour(IF h > 22 THEN 22 ELSE IF h < 6 THEN 6 ELSE h)

\* EagleEyeApp.get_location_based_fallback_timing; location_hash is the
\* integer read from the md5 digest of name and address
get_location_based_fallback_timing(venue_name, location_hash) ==
    LET kw == VenueKeyword(venue_name)
        peak_hours    == CASE kw = "7-eleven" -> <<7, 8, 17, 18, 19>>
                           [] kw = "lotus"    -> <<11, 17, 18, 19>>
                           [] kw = "big c"    -> <<18, 19, 20>>
                           [] OTHER           -> <<12, 17, 18>>
        weekend_hours == CASE kw = "7-eleven" -> <<9, 10, 17, 18>>
                           [] kw = "lotus"    -> <<10, 11, 16, 17>>
                           [] kw = "big c"    -> <<11, 16, 17, 18>>
                           [] OTHER           -> <<12, 17, 18>>
        activity      == IF kw \in {"7-eleven", "lotus"} THEN "High" ELSE "Medium"
        best_day      == CASE kw = "7-eleven" -> "Friday"
                           [] kw = "lotus"    -> "Saturday"
                           [] kw = "big c"    -> "Sunday"
                           [] OTHER           -> "Saturday"
        hour_variation == (location_hash % 3) - 1
        adjusted(hours) == [i \in 1..3 |-> adjust_time(hours[i], hour_variation)]
    IN  Profile(JoinComma(adjusted(peak_hours)), JoinComma(adjusted(weekend_hours)),
                best_day, activity, "location_specific_fallback")

\* EagleEyeApp.get_besttime_data(venue_name, venue_address)
get_besttime_data(venue_name, location_hash, has_key, response) ==
    IF ~has_key THEN get_fallback_timing_data
    ELSE IF response.kind = "timeout" THEN get_fallback_timing_data
    ELSE IF response.status_code = 200
         THEN IF IsSome(response.body)
              THEN [get_corrected_timing_from_besttime(Val(response.body))
                      EXCEPT !.timing_status = "besttime_api_live"]
              ELSE get_fallback_timing_data
    ELSE IF response.status_code = 404
         THEN get_location_based_fallback_timing(venue_name, location_hash)
    ELSE get_fallback_timing_data

---------------------------------------------------------------------------
(* Specification SpecTiming: a sequence of timing calls against a provider
   whose response to each call is arbitrary *)

MaxCalls == 2       \* calls whose <<entry, cause, status>> is remembered

HourRec(hour, intensity_nr) == [hour |-> hour, intensity_nr |-> intensity_nr]

\* hour_analysis lists of the list format
ListDayA == << HourRec(10, CLOSED), HourRec(18, 5) >>
ListDayB == << HourRec(7, 1), HourRec(17, 2), HourRec(18, 5), HourRec(19, 1) >>
ListDayC == << HourRec(10, CLOSED), HourRec(11, 0) >>
\* four open hours, the busiest last
ListDayD == << HourRec(7, 1), HourRec(12, 2), HourRec(18, 3), HourRec(19, 5) >>

ListAnalyses ==
    {ListAnalysis(<<>>)} \cup
    { ListAnalysis(<<mon, <<>>, <<>>, <<>>, <<>>, sat>>) :
        mon \in {ListDayA, ListDayB, ListDayC, ListDayD}, sat \in {<<>>, ListDayA, ListDayC} }

\* day mappings of the mapping format: <<hour key, busy percent>>
DictDayA == << <<Some(17), 50>>, <<Some(18), 80>>, <<Some(19), 60>>, <<Some(20), 30>> >>
DictDayB == << <<Some(5), 90>>, <<None, 10>> >>
DictDayC == << <<Some(12), 80>>, <<Some(18), 80>>, <<Some(9), 80>>, <<Some(21), 90>> >>
\* a day that is busy in the morning and quiet in the evening
DictDayE == << <<Some(10), 90>>, <<Some(18), 40>> >>
\* a day whose hour 17 carries the closed sentinel
DictDayD == << <<Some(9), 20>>, <<Some(12), 30>>, <<Some(17), CLOSED>>, <<Some(18), 40>> >>

DictAnalyses ==
    { DictAnalysis((IF mon = <<>> THEN <<>> ELSE << <<"Monday", mon>> >>)
                   \o (IF sat = <<>> THEN <<>> ELSE << <<"Saturday", sat>> >>)) :
        mon \in {<<>>, DictDayA, DictDayB, DictDayD}, sat \in {<<>>, DictDayB, DictDayC, DictDayE} }

Bodies ==
    {None, Some(JsonArray), Some(JsonObject(None))}
    \cup { Some(JsonObject(Some(a))) : a \in ListAnalyses \cup DictAnalyses }

Responses ==
    {Timeout, Http(500, None), Http(404, None), Http(404, Some(JsonObject(None)))}
    \cup { Http(200, b) : b \in Bodies }
    \cup { Http(202, b) : b \in {None, Some(JsonArray)}
                                  \cup { Some(JsonObject(Some(a))) : a \in ListAnalyses } }

Venues == { <<"7-Eleven Hat Yai", 0>>, <<"7-Eleven Hat Yai", 2>>, <<"Mini Mart", 1>>,
            <<"Big C Mini", 0>>, <<"Lotus Go Fresh", 1>> }

TimingCall(entry, venue, has_key, response) ==
    [ entry |-> entry, venue_name |-> venue[1], location_hash |-> venue[2],
      has_key |-> has_key, response |-> response ]

\* no request is sent without a key or without a POI name: the response of
\* such a call is fixed
TimingCalls ==
    { TimingCall("report", <<"", 0>>, k, Timeout) : k \in BOOLEAN }
    \cup { TimingCall("report", <<"7-Eleven Hat Yai", 0>>, FALSE, Timeout) }
    \cup { TimingCall("report", <<"7-Eleven Hat Yai", 0>>, TRUE, r) : r \in Responses }
    \cup { TimingCall("app", v, FALSE, Timeout) : v \in Venues }
    \cup { TimingCall("app", v, TRUE, r) : v \in Venues, r \in Responses }

\* the timing step of either entry point
TimingStep(c) ==
    IF c.entry = "report"
    THEN _get_timing_analysis(c.venue_name, c.has_key, c.response)
    ELSE get_besttime_data(c.venue_name, c.location_hash, c.has_key, c.response)

\* whether the response carries an analysis
HasAnalysis(c) ==
    /\ c.response.kind = "http" /\ c.response.status_code = 200
    /\ IsSome(c.response.body)
    /\ Val(c.response.body).is_object
    /\ IsSome(Val(c.response.body).analysis)

\* whether both peak lists of the call come from the default branch
DefaultPeaks(c) ==
    \/ ~HasAnalysis(c)
    \/ /\ c.entry = "report"
       /\ DaysItems(Val(Val(c.response.body).analysis), WEEK) = <<>>
    \/ /\ c.entry = "app"
       /\ extract_peak_hours(Val(c.response.body), 0, 1) = <<>>
       /\ extract_peak_hours(Val(c.response.body), 5, 1) = <<>>

\* why the call has the outcome it has
Cause(c) ==
    IF c.entry = "report" /\ c.venue_name = "" THEN "no_poi"
    ELSE IF ~c.has_key \/ c.response.kind = "timeout" THEN "error"
    ELSE IF c.response.status_code = 404 THEN "not_found"
    ELSE IF c.response.status_code # 200 THEN "error"
    ELSE IF c.response.body = None THEN "error"
    ELSE IF ~HasAnalysis(c) THEN "no_data"
    ELSE IF DefaultPeaks(c) THEN "unusable"
    ELSE "live"

InitTiming ==
    /\ IdleScore
    /\ IdleProc
    /\ IdlePeak
    /\ IdleTiming
    /\ IdleLoc
    /\ IdleRun
    /\ IdleGrid
    /\ IdleAgent
    /\ IdleRes
    /\ IdleEnh

GetTiming ==
    /\ Cardinality(tm_log) < MaxCalls
    /\ \E c \in TimingCalls :
         /\ tm_call' = Some(c)
         /\ tm_profile' = Some(TimingStep(c))
         /\ tm_log' = tm_log \cup {<<c.entry, Cause(c), TimingStep(c).timing_status>>}
    /\ UNCHANGED notTiming

NextTiming == GetTiming

SpecTiming == InitTiming /\ [][NextTiming]_vars

---------------------------------------------------------------------------
(* Properties of the timing step, under SpecTiming *)

\* status tags that present a profile as provider data
LiveTags == {"besttime_success", "besttime_api_live", "besttime_api_corrected"}

\* C9: every timing call returns a complete profile; within one entry point
\* the status tags of 'no data', 'not found', 'error' and live data are
\* pairwise different; and a profile whose peak hours come from the default
\* branch is not tagged as live or corrected provider data.
C9_StatusTellsCause ==
    /\ IsSome(tm_profile) =>
         /\ Val(tm_profile).timing_weekday # ""
         /\ Val(tm_profile).timing_weekend # ""
         /\ Val(tm_profile).best_day # ""
         /\ Val(tm_profile).activity_level # ""
         /\ (DefaultPeaks(Val(tm_call)) => Val(tm_profile).timing_status \notin LiveTags)
    /\ \A a, b \in tm_log :
         (/\ a[1] = b[1]
          /\ a[2] # b[2]
          /\ {a[2], b[2]} \subseteq {"no_data", "not_found", "error", "live"})
         => a[3] # b[3]

---------------------------------------------------------------------------
(* POI locator: gmaps_client.find_nearest_convenience_store_for_residential_
   analysis. Latitudes are in micro-degrees and every point lies on one
   meridian; distances are doubles, in km. *)

\* GoogleMapsClient._calculate_distance of two points of one meridian, the
\* latitudes being the doubles of lat1 / 10^6 and lat2 / 10^6. dlng is 0.0
\* and so is cos(lat1) * cos(lat2) * sin(dlng/2)**2, which leaves
\* a = sin(dlat/2)**2. The power is within 0.52 units in the last place of
\* the square, and the square root of such a double is |sin(dlat/2)|
\* dlat = lat2 - lat1, of the two latitudes in radians
dlat(lat1, lat2) ==
    FSub(radians(FOfRatio(lat2, 1000000)), radians(FOfRatio(lat1, 1000000)))

\* r * c, with c = 2 * asin(sqrt(a)) and r = 6371
haversine(lat1, lat2) ==
    FMul(DTwice(asin(DAbs(sin(DHalf(dlat(lat1, lat2)))))), 6371)

Search(keyword, radius, type) == [keyword |-> keyword, radius |-> radius, type |-> type]

\* search_strategies; max_distance in km, Thai keywords transliterated
search_strategies ==
    << [ zone |-> "HIGH", max_distance |-> 1,
         searches |-> << Search("7-Eleven", 1000, "convenience_store"),
                         Search("Seven (th)", 1000, "convenience_store"),
                         Search("FamilyMart", 1000, "convenience_store"),
                         Search("Lotus Express", 1000, "convenience_store"),
                         Search("CP Freshmart", 1000, "convenience_store"),
                         Search("Big C Mini", 1000, "convenience_store") >> ],
       [ zone |-> "MEDIUM", max_distance |-> 2,
         searches |-> << Search("7-Eleven", 2000, "convenience_store"),
                         Search("Big C", 2000, "supermarket"),
                         Search("Lotus", 2000, "supermarket"),
                         Search("Makro", 2000, "supermarket"),
                         Search("Tesco", 2000, "supermarket"),
                         Search("Department store (th)", 2000, "shopping_mall") >> ],
       [ zone |-> "LOW", max_distance |-> 3,
         searches |-> << Search("convenience store", 3000, "convenience_store"),
                         Search("supermarket", 3000, "supermarket"),
                         Search("Market (th)", 3000, "establishment"),
                         Search("Shop (th)", 3000, "store"),
                         Search("shopping mall", 3000, "shopping_mall") >> ] >>

NumSearches(tier) == Len(search_strategies[tier].searches)

\* A place of the provider: its id, name, types and latitude (None: the
\* result has no geometry), and the keywords whose search finds it.
Place(place_id, name, types, lat, keywords) ==
    [place_id |-> place_id, name |-> name, types |-> types, lat |-> lat, keywords |-> keywords]

\* f2 and s1 share one building; b2 and b3 are 0.88956 km and 0.88500 km
\* from the anchor, 0.89 km both once rounded
Catalogue ==
    << Place("s1", "7-Eleven Hat Yai 1", {"convenience_store"}, Some(7003600),
             {"7-Eleven", "Seven (th)", "convenience store"}),
       Place("b2", "Big C Mini Hat Yai", {"supermarket"}, Some(7008000),
             {"Big C Mini", "Big C", "supermarket"}),
       Place("b1", "Big C Supercenter", {"supermarket"}, Some(7011700),
             {"Big C Mini", "Big C", "supermarket"}),
       Place("s2", "7-Eleven Hat Yai 2", {"convenience_store"}, Some(7013500),
             {"7-Eleven", "Seven (th)", "convenience store"}),
       Place("f1", "Central Festival Mall", {"shopping_mall"}, Some(7016000),
             {"Department store (th)", "shopping mall"}),
       Place("m1", "Talad Sod", {"establishment"}, Some(7023400), {"Market (th)"}),
       Place("m2", "Talad Nat", {"establishment"}, Some(7031500), {"Market (th)"}),
       Place("s3", "7-Eleven Express", {"convenience_store"}, None,
             {"7-Eleven", "convenience store"}),
       Place("f2", "FamilyMart Hat Yai", {"convenience_store"}, Some(7003600),
             {"FamilyMart", "convenience store"}),
       Place("b3", "Big C Mini Market", {"supermarket"}, Some(7007959),
             {"Big C Mini", "supermarket"}) >>

\* any(brand in name.upper() for brand in ["7-ELEVEN", <Thai seven>, "CP",
\* "LOTUS"]), for the names of the catalogue
HasBrandName(name) == name \in {"7-Eleven Hat Yai 1", "7-Eleven Hat Yai 2", "7-Eleven Express"}

\* the anchor of the locate calls: 7.0 degrees
AnchorLat == 70 * 100000

\* the latitudes of the catalogue and the latitudes that the calls of the
\* specifications start from
PlaceLats == {Val(Catalogue[i].lat) : i \in {j \in 1..Len(Catalogue) : IsSome(Catalogue[j].lat)}}
CallLats  == {AnchorLat + d : d \in {0, 20, 150, 200, 250, 300, 900, 9850, 100000}}

\* the haversine formula as a function of the two latitudes
Haversine == [p \in Int \X Int |-> haversine(p[1], p[2])]

\* the distances of the calls of the specifications, computed once
KnownDistances == [p \in CallLats \X PlaceLats |-> Haversine[p]] @@ <<>>

\* GoogleMapsClient._calculate_distance
calculate_distance(lat1, lat2) ==
    IF <<lat1, lat2>> \in CallLats \X PlaceLats THEN KnownDistances[<<lat1, lat2>>]
    ELSE Haversine[<<lat1, lat2>>]

\* round(distance, 2) of find_nearby_places, in hundredths of a km; a place
\* without geometry has no distance_km and sorts last
distance_km(lat, place) ==
    IF IsSome(place.lat) THEN PyRound(calculate_distance(lat, Val(place.lat)), 100)
    ELSE 1000000

\* the position of place i once the places are sorted by their keys, places
\* of equal keys staying in their order
SortedPosition(keys, i) ==
    1 + Cardinality({j \in 1..Len(keys) : keys[j] < keys[i] \/ (keys[j] = keys[i] /\ j < i)})

SortedByKey(places, keys) ==
    [k \in 1..Len(places) |-> places[CHOOSE i \in 1..Len(places) : SortedPosition(keys, i) = k]]

\* places.sort(key=distance_km): stable; each place has got its distance_km
\* before
SortByDistance(lat, places) ==
    SortedByKey(places, [i \in 1..Len(places) |-> distance_km(lat, places[i])] @@ <<>>)

\* GoogleMapsClient.find_nearby_places answered with status OK: the places
\* of the world that the keyword finds, whatever the radius, by distance
find_nearby_places(world, lat, search) ==
    LET Found(p) == p \in world /\ search.keyword \in p.keywords
    IN  SortByDistance(lat, SelectSeq(Catalogue, Found))

\* the tag the locate loop puts on each place of a search
Tagged(places, search) ==
    [i \in 1..Len(places) |-> [place |-> places[i], search_keyword |-> search.keyword]]

\* the zone test with the distance filter left out
within_zone_any(distance, max_distance) == TRUE

\* distance <= strategy["max_distance"], of two doubles
within_zone(distance, max_distance) == DCmp(distance, DOfInt(max_distance)) <= 0

\* one pass of the filter-and-deduplicate loop: distance is
\* _calculate_distance of the anchor and the place, computed when the place
\* has coordinates
FilterPlace(valid, tagged, distance, excluded_place_ids, strategy) ==
    IF /\ tagged.place.place_id # ""
       /\ tagged.place.place_id \notin {valid[i].place_id : i \in 1..Len(valid)}
       /\ tagged.place.place_id \notin excluded_place_ids
       /\ IsSome(tagged.place.lat) /\ Val(tagged.place.lat) # 0
       /\ within_zone(distance, strategy.max_distance)
    THEN Append(valid, [ place_id |-> tagged.place.place_id, name |-> tagged.place.name,
                         types |-> tagged.place.types,
                         search_keyword |-> tagged.search_keyword,
                         distance_km |-> distance,
                         confidence_level |-> strategy.zone ])
    ELSE valid

RECURSIVE FilterPlaces(_, _, _, _, _)
\* the filter-and-deduplicate loop: valid_places in insertion order
FilterPlaces(valid, zone_places, lat, excluded_place_ids, strategy) ==
    IF zone_places = <<>> THEN valid
    ELSE FilterPlaces(FilterPlace(valid, Head(zone_places),
                                  calculate_distance(lat, Val(Head(zone_places).place.lat)),
                                  excluded_place_ids, strategy),
                      Tail(zone_places), lat, excluded_place_ids, strategy)

valid_places(zone_places, lat, excluded_place_ids, strategy) ==
    FilterPlaces(<<>>, zone_places, lat, excluded_place_ids, strategy)

\* the score of a valid place, a double: the distance, less 0.5
\* (convenience store or brand name) or less 0.2 (supermarket)
poi_score(place) ==
    IF \/ "convenience_store" \in place.types
       \/ HasBrandName(place.name)
       \/ "supermarket" \in place.types
    THEN FSub(place.distance_km,
              FOfRatio(IF "convenience_store" \in place.types \/ HasBrandName(place.name)
                       THEN 5 ELSE 2, 10))
    ELSE place.distance_km

\* the score of each valid place
poi_scores(valid) == [i \in 1..Len(valid) |-> poi_score(valid[i])] @@ <<>>

\* i is before j in the order of the scores
ScoreBelow(scores, i, j) == DCmp(scores[i], scores[j]) < 0

LastOfLowest(valid, scores) ==
    valid[CHOOSE i \in 1..Len(valid) :
            /\ \A j \in 1..Len(valid) : ~ScoreBelow(scores, j, i)
            /\ \A j \in (i + 1)..Len(valid) : ScoreBelow(scores, i, j)]

FirstOfLowest(valid, scores) ==
    valid[CHOOSE i \in 1..Len(valid) :
            /\ \A j \in 1..Len(valid) : ~ScoreBelow(scores, j, i)
            /\ \A j \in 1..(i - 1) : ScoreBelow(scores, i, j)]

\* the last place of the lowest score (score <= best_score)
best_poi_last(valid) == LastOfLowest(valid, poi_scores(valid))

\* the first place of the lowest score (score < best_score)
best_poi(valid) == FirstOfLowest(valid, poi_scores(valid))

RECURSIVE TierSearches(_, _, _, _, _)
\* zone_places of a tier from search k on; a failed query adds nothing
TierSearches(world, lat, tier, k, failed) ==
    IF k > NumSearches(tier) THEN <<>>
    ELSE (IF <<tier, k>> \in failed THEN <<>>
          ELSE Tagged(find_nearby_places(world, lat, search_strategies[tier].searches[k]),
                      search_strategies[tier].searches[k]))
         \o TierSearches(world, lat, tier, k + 1, failed)

RECURSIVE LocateFrom(_, _, _, _, _)
\* the end of one strategy: the best of its valid places, or the next one
LocateIn(valid, tier, lat, excluded_place_ids, world, failed) ==
    IF valid # <<>> THEN Some(best_poi(valid))
    ELSE LocateFrom(tier + 1, lat, excluded_place_ids, world, failed)

\* the loop over the strategies from one tier on
LocateFrom(tier, lat, excluded_place_ids, world, failed) ==
    IF tier > Len(search_strategies) THEN None
    ELSE LocateIn(valid_places(TierSearches(world, lat, tier, 1, failed), lat,
                               excluded_place_ids, search_strategies[tier]),
                  tier, lat, excluded_place_ids, world, failed)

\* find_nearest_convenience_store_for_residential_analysis with an API key:
\* the returned place or None
find_nearest_convenience_store_for_residential_analysis(lat, excluded_place_ids, world, failed) ==
    LocateFrom(1, lat, excluded_place_ids, world, failed)

---------------------------------------------------------------------------
(* Specification SpecLocate: one locate call, one provider query per step *)

MaxPlaces   == 3    \* places the provider knows around the anchor
MaxFailures == 1    \* provider queries that fail during one call

RECURSIVE SubsetsUpTo(_, _)
\* the subsets of S of at most n elements
SubsetsUpTo(S, n) ==
    IF n = 0 \/ S = {} THEN {{}}
    ELSE LET x == CHOOSE x \in S : TRUE
         IN  SubsetsUpTo(S \ {x}, n) \cup { T \cup {x} : T \in SubsetsUpTo(S \ {x}, n - 1) }

Worlds == SubsetsUpTo(Range(Catalogue), MaxPlaces)

ExcludedSets == SUBSET {"s1", "b1"}

\* halfway between b2 and b1: 1850 micro-degrees from either, b2 to the south
\* (0.205710614292481 km) and b1 to the north (0.20571061429239257 km)
MidLat == AnchorLat + 9850

\* the calls of the specification: the anchor in every world, and the point
\* between b2 and b1 in the worlds that hold both
LocateCalls ==
    {<<AnchorLat, world>> : world \in Worlds}
      \cup {<<MidLat, world>> : world \in {w \in Worlds : {Catalogue[2], Catalogue[3]} \subseteq w}}

InitLocate ==
    /\ IdleScore
    /\ IdleProc
    /\ IdlePeak
    /\ IdleTiming
    /\ IdleRun
    /\ IdleGrid
    /\ IdleAgent
    /\ IdleRes
    /\ IdleEnh
    /\ \E place \in LocateCalls, excluded \in ExcludedSets, has_key \in BOOLEAN :
         loc_call = Some([ lat |-> place[1], excluded_place_ids |-> excluded,
                           world |-> place[2], has_key |-> has_key ])
    /\ loc_pc = "start"
    /\ loc_tier = 0
    /\ loc_search = 0
    /\ loc_zone_places = <<>>
    /\ loc_log = <<>>
    /\ loc_failed = {}
    /\ loc_result = None

\* client = GoogleMapsClient() raises RuntimeError without an API key
LocateWithoutKey ==
    /\ loc_pc = "start"
    /\ ~Val(loc_call).has_key
    /\ loc_pc' = "done"
    /\ loc_result' = Some(Raised)
    /\ UNCHANGED <<loc_call, loc_tier, loc_search, loc_zone_places, loc_log, loc_failed, notLoc>>

\* entering the loop over the strategies
LocateStart ==
    /\ loc_pc = "start"
    /\ Val(loc_call).has_key
    /\ loc_pc' = "search"
    /\ loc_tier' = 1
    /\ loc_search' = 1
    /\ UNCHANGED <<loc_call, loc_zone_places, loc_log, loc_failed, loc_result, notLoc>>

\* one search of the current tier, answered by the provider
SearchAnswered ==
    /\ loc_pc = "search"
    /\ loc_search <= NumSearches(loc_tier)
    /\ LET search == search_strategies[loc_tier].searches[loc_search]
           places == find_nearby_places(Val(loc_call).world, Val(loc_call).lat, search)
       IN  loc_zone_places' = loc_zone_places \o Tagged(places, search)
    /\ loc_log' = Append(loc_log, <<loc_tier, loc_search>>)
    /\ loc_search' = loc_search + 1
    /\ UNCHANGED <<loc_call, loc_pc, loc_tier, loc_failed, loc_result, notLoc>>

\* a failed search that is sent a second time before the loop goes on
SearchFailed_retries ==
    /\ loc_pc = "search"
    /\ loc_search <= NumSearches(loc_tier)
    /\ Cardinality(loc_failed) < MaxFailures
    /\ loc_failed' = loc_failed \cup {<<loc_tier, loc_search>>}
    /\ loc_log' = loc_log \o << <<loc_tier, loc_search>>, <<loc_tier, loc_search>> >>
    /\ loc_search' = loc_search + 1
    /\ UNCHANGED <<loc_call, loc_pc, loc_tier, loc_zone_places, loc_result, notLoc>>

\* a failed search that ends the call: the exception reaches the outer
\* except clause, which returns None
SearchFailed_aborts ==
    /\ loc_pc = "search"
    /\ loc_search <= NumSearches(loc_tier)
    /\ Cardinality(loc_failed) < MaxFailures
    /\ loc_failed' = loc_failed \cup {<<loc_tier, loc_search>>}
    /\ loc_log' = Append(loc_log, <<loc_tier, loc_search>>)
    /\ loc_result' = Some(Returned(None))
    /\ loc_pc' = "done"
    /\ UNCHANGED <<loc_call, loc_tier, loc_search, loc_zone_places, notLoc>>

\* one search of the current tier that fails: find_nearby_places returns []
\* or raises, and the loop goes on to the next search
SearchFailed ==
    /\ loc_pc = "search"
    /\ loc_search <= NumSearches(loc_tier)
    /\ Cardinality(loc_failed) < MaxFailures
    /\ loc_failed' = loc_failed \cup {<<loc_tier, loc_search>>}
    /\ loc_log' = Append(loc_log, <<loc_tier, loc_search>>)
    /\ loc_search' = loc_search + 1
    /\ UNCHANGED <<loc_call, loc_pc, loc_tier, loc_zone_places, loc_result, notLoc>>

\* the end of a tier whose valid places are given
SelectFrom(valid) ==
    IF valid # <<>>
    THEN /\ loc_result' = Some(Returned(Some(best_poi(valid))))
         /\ loc_pc' = "done"
         /\ UNCHANGED <<loc_tier, loc_search, loc_zone_places>>
    ELSE IF loc_tier = Len(search_strategies)
    THEN /\ loc_result' = Some(Returned(None))
         /\ loc_pc' = "done"
         /\ UNCHANGED <<loc_tier, loc_search, loc_zone_places>>
    ELSE /\ loc_tier' = loc_tier + 1
         /\ loc_search' = 1
         /\ loc_zone_places' = <<>>
         /\ UNCHANGED <<loc_pc, loc_result>>

\* after the searches of a tier: filter, pick the best place and return it,
\* or go on to the next tier, or return None after the last one
SelectInTier ==
    /\ loc_pc = "search"
    /\ loc_search > NumSearches(loc_tier)
    /\ SelectFrom(valid_places(loc_zone_places, Val(loc_call).lat,
                               Val(loc_call).excluded_place_ids, search_strategies[loc_tier]))
    /\ UNCHANGED <<loc_call, loc_log, loc_failed, notLoc>>

NextLocate ==
    \/ LocateWithoutKey
    \/ LocateStart
    \/ SearchAnswered
    \/ SearchFailed
    \/ SelectInTier

SpecLocate == InitLocate /\ [][NextLocate]_vars

---------------------------------------------------------------------------
(* Properties of the locate call, under SpecLocate *)

\* the places the answered queries of tier t have returned so far
YieldOfTier(t) ==
    { p \in Val(loc_call).world :
        \E i \in 1..Len(loc_log) :
          /\ loc_log[i][1] = t
          /\ loc_log[i] \notin loc_failed
          /\ search_strategies[t].searches[loc_log[i][2]].keyword \in p.keywords }

\* the valid candidates of tier t: not excluded, with coordinates, within
\* t kilometres of the anchor
CandidatesOfTier(t) ==
    { p \in YieldOfTier(t) :
        /\ p.place_id \notin Val(loc_call).excluded_place_ids
        /\ IsSome(p.lat)
        /\ DCmp(calculate_distance(Val(loc_call).lat, Val(p.lat)), DOfInt(t)) <= 0 }

LastTier == loc_log[Len(loc_log)][1]

\* C2: the queries go out in the fixed order HIGH, MEDIUM, LOW, each tier's
\* searches in list order; a tier is entered only when every earlier tier
\* has yielded no valid candidate; the call returns a valid candidate of the
\* last tier queried with that tier's name as confidence_level, and returns
\* None only after all three tiers yielded none. So with no valid candidate
\* in tier 1 and one supermarket in tier 2, that supermarket is returned as
\* MEDIUM and tier 3 is never searched.
C2_FirstTierWins ==
    /\ \A i \in 1..Len(loc_log) :
         IF i = 1 THEN loc_log[i] = <<1, 1>>
         ELSE \/ loc_log[i] = <<loc_log[i - 1][1], loc_log[i - 1][2] + 1>>
              \/ /\ loc_log[i] = <<loc_log[i - 1][1] + 1, 1>>
                 /\ loc_log[i - 1][2] = <<6, 6, 5>>[loc_log[i - 1][1]]
    /\ \A i \in 1..Len(loc_log) :
         /\ loc_log[i][1] \in 1..3
         /\ loc_log[i][2] \in 1..<<6, 6, 5>>[loc_log[i][1]]
         /\ \A t \in 1..(loc_log[i][1] - 1) : CandidatesOfTier(t) = {}
    /\ (loc_pc = "done" /\ ~Val(loc_result).raised) =>
         IF IsSome(Val(loc_result).value)
         THEN LET poi == Val(Val(loc_result).value)
              IN  /\ loc_log # <<>>
                  /\ poi.confidence_level = <<"HIGH", "MEDIUM", "LOW">>[LastTier]
                  /\ \E p \in CandidatesOfTier(LastTier) : p.place_id = poi.place_id
         ELSE /\ Len(loc_log) = 17
              /\ \A t \in 1..3 : CandidatesOfTier(t) = {}

C2_Witness ==
    /\ loc_pc = "done"
    /\ ~Val(loc_result).raised
    /\ IsSome(Val(loc_result).value)
    /\ CandidatesOfTier(1) = {}
    /\ YieldOfTier(1) # {}
    /\ Cardinality(CandidatesOfTier(2)) = 1
    /\ \A p \in CandidatesOfTier(2) :
         /\ p.types = {"supermarket"}
         /\ p.place_id = Val(Val(loc_result).value).place_id
    /\ Val(Val(loc_result).value).confidence_level = "MEDIUM"
    /\ Len(loc_log) = 12
    /\ \A i \in 1..Len(loc_log) : loc_log[i][1] # 3

---------------------------------------------------------------------------
(* Runs: EnhancedSalesReportGenerator.generate_enhanced_report and
   Agent2BatchProcessor.run_batch_processing *)

\* the result of get_poi_for_village, as kept by get_poi_for_sales_zone
PoiResult(name, place_id, confidence, distance) ==
    [ Indicator_POI |-> name, Indicator_Place_ID |-> place_id,
      Confidence_Level |-> confidence, POI_Distance_km |-> distance ]

\* get_poi_for_village with an API key (without one the locate call raises)
PoiResultOf(nearest_poi) ==
    IF IsSome(nearest_poi)
    THEN PoiResult(Val(nearest_poi).name, Val(nearest_poi).place_id,
                   Val(nearest_poi).confidence_level, Val(nearest_poi).distance_km)
    ELSE PoiResult("", "", "NONE", DOfInt(0))

get_poi_for_village(lat, excluded_place_ids, world) ==
    PoiResultOf(find_nearest_convenience_store_for_residential_analysis(
                    lat, excluded_place_ids, world, {}))

\* cache_key = f"{lat:.4f},{lng:.4f}": the latitude, a double, formatted to
\* four decimals, in 1/10000 degree (the longitude is the same everywhere)
cache_key(lat) == Rounded(lat, 100, PyRound(FOfRatio(lat, 1000000), 10000))

\* get_poi_for_sales_zone: <<result, cache after the call>>
\* self.poi_cache[cache_key] = enhanced_result; return enhanced_result
Memoized(cache, key, enhanced_result) ==
    <<enhanced_result, (key :> enhanced_result) @@ cache>>

CachedOrLocated(cache, key, lat, used, world) ==
    IF key \in DOMAIN cache THEN <<cache[key], cache>>
    ELSE Memoized(cache, key, get_poi_for_village(lat, used, world))

get_poi_for_sales_zone(cache, lat, used, world) ==
    CachedOrLocated(cache, cache_key(lat), lat, used, world)

\* the overview row of a zone and the detail rows of its blocks
OverviewRow(sales_zone, poi_name, confidence_level) ==
    [ Level |-> "SALES_ZONE", Sales_Zone_ID |-> sales_zone.Sales_Zone_ID,
      Happy_Blocks |-> sales_zone.Happy_Blocks, Priority_Score |-> sales_zone.Priority_Score,
      POI_Name |-> poi_name, Confidence_Level |-> confidence_level ]

RECURSIVE DetailRowsOf(_, _, _)
DetailRowsOf(sales_zone, blocks, happy_block_list) ==
    IF happy_block_list = <<>> THEN <<>>
    ELSE LET IsBlock(hb) == /\ hb.Village_Name = sales_zone.Village_Name
                            /\ hb.Happy_Block = Head(happy_block_list)
             hb_data == SelectSeq(blocks, IsBlock)
         IN  (IF hb_data # <<>>
              THEN << [ Level |-> "HAPPY_BLOCK", Sales_Zone_ID |-> sales_zone.Sales_Zone_ID,
                        Happy_Blocks |-> <<Head(happy_block_list)>>,
                        Priority_Score |-> hb_data[1].Priority_Score,
                        POI_Name |-> "", Confidence_Level |-> "" ] >>
              ELSE <<>>)
             \o DetailRowsOf(sales_zone, blocks, Tail(happy_block_list))

DetailRows(sales_zone, blocks) ==
    IF sales_zone.Happy_Block_Count > 1
    THEN DetailRowsOf(sales_zone, blocks, sales_zone.Happy_Blocks)
    ELSE <<>>

\* load_and_process_l2_data: the block table and the ranked zone table
load_and_process_l2_data(file) ==
    LET blocks == aggregate_happy_blocks(calculate_priority_scores(load_data(file)))
    IN  [ happy_blocks_df |-> blocks,
          enhanced_db     |-> get_prioritized_sales_zones(create_sales_zones(blocks), None) ]

---------------------------------------------------------------------------
(* Specification SpecRun: a report generator, or a batch processor, that
   makes up to MaxRuns runs over the same data and the same provider *)

MaxRuns == 2

\* csv files of the report generator: blocks 1 and 2 lie in the same
\* 0.1-degree cell, block 3 in the next one
RunRow(hb, v, prof) == CsvRow(Some(1), Some(hb), Some(v), Some(BlockLat[hb]), prof)

RunFiles ==
    { << RunRow(1, 1, <<10, 10, 100>>), RunRow(2, 2, <<10, 4, 100>>) >>,
      << RunRow(1, 1, <<10, 4, 100>>), RunRow(3, 2, <<10, 10, 100>>) >>,
      << RunRow(1, 1, <<10, 4, 100>>), RunRow(2, 1, <<10, 10, 100>>),
         RunRow(3, 2, <<10, 4, 100>>) >>,
      << RunRow(2, 1, <<10, 4, 100>>) >> }

\* a row of the village sheet: Village_Name, Latitude (a number, empty, or
\* a token that is not a number), Indicator_POI and Indicator_Place_ID
\* (empty until a POI is assigned)
VillageRow(name, lat, poi, place_id) ==
    [ Village_Name |-> name, Latitude |-> lat, Indicator_POI |-> poi,
      Indicator_Place_ID |-> place_id ]

Village(name, lat) == VillageRow(name, Some(lat), "", "")

\* village sheets of the batch processor: the csv file it loads
VillageSheets ==
    { << Village(1, AnchorLat), Village(2, AnchorLat + 900) >>,
      << Village(1, AnchorLat), Village(2, AnchorLat) >>,
      << Village(1, AnchorLat), Village(2, AnchorLat + 20), Village(3, AnchorLat + 900) >>,
      << VillageRow(1, Some(AnchorLat), "7-Eleven Hat Yai 1", "s1"), Village(2, 0),
         Village(3, AnchorLat + 20) >>,
      << VillageRow(1, None, "", ""), VillageRow(2, Text(<<"n", "/", "a">>), "", "") >> }

\* self.batch_size
batch_size == 10

\* pd.to_numeric(errors='coerce'): a token that is not a number becomes NaN
to_numeric(cell) == IF IsText(cell) THEN None ELSE cell

\* the sheet after filter_villages_needing_poi has replaced its Latitude
\* column by the numeric one
CoercedSheet(frame) ==
    [i \in 1..Len(frame) |-> [frame[i] EXCEPT !.Latitude = to_numeric(frame[i].Latitude)]]

\* the rows of the sheet with their index, as iterrows() yields them
RECURSIVE IndexedFrom(_, _)
IndexedFrom(frame, i) ==
    IF i > Len(frame) THEN <<>>
    ELSE << [ row_index |-> i, Village_Name |-> frame[i].Village_Name,
              Latitude |-> frame[i].Latitude, Indicator_POI |-> frame[i].Indicator_POI ] >>
         \o IndexedFrom(frame, i + 1)

\* filter_villages_needing_poi: the rows with a numeric, non-zero Latitude
\* and an empty Indicator_POI, under their index in the sheet
filter_villages_needing_poi(frame) ==
    LET Needs(r) == /\ IsSome(r.Latitude)
                    /\ Val(r.Latitude) # 0
                    /\ r.Indicator_POI = ""
    IN  SelectSeq(IndexedFrom(CoercedSheet(frame), 1), Needs)

\* needs_poi.iloc[start_from:] when start_from > 0
FromRow(rows, start_from) ==
    IF start_from >= Len(rows) THEN <<>> ELSE SubSeq(rows, start_from + 1, Len(rows))

\* update_dataframe: the POI columns of the rows named by the results
RECURSIVE update_dataframe(_, _)
update_dataframe(frame, results) ==
    IF results = <<>> THEN frame
    ELSE LET result == Head(results)
         IN  update_dataframe(
                 [frame EXCEPT ![result.row_index] =
                      [@ EXCEPT !.Indicator_POI = result.Indicator_POI,
                                !.Indicator_Place_ID = result.Indicator_Place_ID]],
                 Tail(results))

\* save_results: the file after the call; nothing is written without
\* results
save_results(file, frame, results) == IF results = <<>> THEN file ELSE frame

\* the file after the village at position idx of villages has been
\* processed: when it ends a batch that has results, the sheet updated with
\* all the results of the run is saved
AfterVillage(file, villages, idx, all_results) ==
    LET batch_start   == (idx - 1) - ((idx - 1) % batch_size)
        batch_rows    == {villages[j].row_index : j \in (batch_start + 1)..idx}
        InBatch(r)    == r.row_index \in batch_rows
        batch_results == SelectSeq(all_results, InBatch)
        batch_ends    == idx % batch_size = 0 \/ idx = Len(villages)
    IN  IF batch_ends /\ batch_results # <<>>
        THEN save_results(file, update_dataframe(CoercedSheet(file), all_results), all_results)
        ELSE file

\* latitudes and exclusion sets of direct calls of get_poi_for_sales_zone:
\* latitudes on and next to a half of the fourth decimal
LookupLats == {AnchorLat + 150, AnchorLat + 200, AnchorLat + 250, AnchorLat + 300}
LookupUsed == {{}, {"s1"}}

RunWorlds ==
    { {}, {Catalogue[1]}, {Catalogue[1], Catalogue[4]},
      {Catalogue[1], Catalogue[2], Catalogue[6]} }

InitRun ==
    /\ IdleScore
    /\ IdleProc
    /\ IdlePeak
    /\ IdleTiming
    /\ IdleLoc
    /\ IdleGrid
    /\ IdleAgent
    /\ IdleRes
    /\ IdleEnh
    /\ \E world \in RunWorlds, has_key \in BOOLEAN :
         \/ \E file \in RunFiles :
              run_env = Some([ runner |-> "report", world |-> world, has_key |-> has_key,
                               data |-> load_and_process_l2_data(file) ])
         \/ \E sheet \in VillageSheets :
              run_env = Some([ runner |-> "agent2", world |-> world, has_key |-> has_key,
                               data |-> sheet ])
         \/ run_env = Some([ runner |-> "lookup", world |-> world, has_key |-> has_key,
                             data |-> <<>> ])
    /\ run_pc = "idle"
    /\ run_top = <<>>
    /\ run_index = 0
    /\ poi_cache = <<>>
    /\ used_place_ids = {}
    /\ run_assigned = <<>>
    /\ report_data = <<>>
    /\ run_count = 0

\* generate_enhanced_report(top_n) up to the loop: the top zones, an empty
\* exclusion set and no rows; the POI cache is the generator's
StartReport ==
    /\ Val(run_env).runner = "report"
    /\ run_pc \in {"idle", "done"}
    /\ run_count < MaxRuns
    /\ \E top_n \in 0..MaxTopN :
         run_top' = HeadN(Val(run_env).data.enhanced_db, top_n)
    /\ run_pc' = "running"
    /\ run_index' = 0
    /\ used_place_ids' = {}
    /\ run_assigned' = <<>>
    /\ report_data' = <<>>
    /\ run_count' = run_count + 1
    /\ UNCHANGED <<run_env, poi_cache, notRun>>

\* the rest of an iteration, looked being what get_poi_for_sales_zone gave
ZoneLooked(sales_zone, looked) ==
    LET poi_result == looked[1]
        found      == poi_result.Indicator_POI # ""
    IN  /\ poi_cache' = looked[2]
        /\ used_place_ids' =
             IF found /\ poi_result.Indicator_Place_ID # ""
             THEN used_place_ids \cup {poi_result.Indicator_Place_ID} ELSE used_place_ids
        /\ run_assigned' = Append(run_assigned, poi_result)
        /\ report_data' =
             report_data
             \o << OverviewRow(sales_zone,
                               IF found THEN poi_result.Indicator_POI ELSE "No POI found",
                               IF found THEN poi_result.Confidence_Level ELSE "NONE") >>
             \o DetailRows(sales_zone, Val(run_env).data.happy_blocks_df)

\* one iteration of the loop over the top zones, with an API key
ReportZone ==
    /\ Val(run_env).runner = "report"
    /\ run_pc = "running"
    /\ run_index < Len(run_top)
    /\ Val(run_env).has_key
    /\ ZoneLooked(run_top[run_index + 1],
                  get_poi_for_sales_zone(poi_cache,
                                         Val(run_top[run_index + 1].Central_Latitude),
                                         used_place_ids, Val(run_env).world))
    /\ run_index' = run_index + 1
    /\ UNCHANGED <<run_env, run_pc, run_top, run_count, notRun>>

\* one iteration without an API key: the locate call raises, the row says
\* that the POI search failed
ReportZoneFails ==
    /\ Val(run_env).runner = "report"
    /\ run_pc = "running"
    /\ run_index < Len(run_top)
    /\ ~Val(run_env).has_key
    /\ cache_key(Val(run_top[run_index + 1].Central_Latitude)) \notin DOMAIN poi_cache
    /\ report_data' =
         report_data
         \o << OverviewRow(run_top[run_index + 1], "POI search failed", "ERROR") >>
         \o DetailRows(run_top[run_index + 1], Val(run_env).data.happy_blocks_df)
    /\ run_assigned' = Append(run_assigned, PoiResult("", "", "ERROR", 0))
    /\ run_index' = run_index + 1
    /\ UNCHANGED <<run_env, run_pc, run_top, poi_cache, used_place_ids, run_count, notRun>>

\* the result of the call is returned and the cache is the generator's
Looked(looked) ==
    /\ poi_cache' = looked[2]
    /\ report_data' = Append(report_data, looked[1])

\* get_poi_for_sales_zone called on its own, with an API key: the result is
\* returned (report_data holds the results of the calls) and, on a miss,
\* cached
LookupSalesZone ==
    /\ Val(run_env).runner = "lookup"
    /\ Val(run_env).has_key
    /\ run_count < MaxRuns
    /\ \E lat \in LookupLats, used \in LookupUsed :
         Looked(get_poi_for_sales_zone(poi_cache, lat, used, Val(run_env).world))
    /\ run_count' = run_count + 1
    /\ UNCHANGED <<run_env, run_pc, run_top, run_index, used_place_ids, run_assigned, notRun>>

\* run_batch_processing(max_villages, start_from) up to the loop over the
\* batches: the sheet is loaded and filtered; with no village needing a POI
\* the run returns at once; else the villages from start_from on, all or
\* the first max_villages, are to be processed. The exclusion set is the
\* processor's
StartBatch ==
    /\ Val(run_env).runner = "agent2"
    /\ run_pc \in {"idle", "done", "raised"}
    /\ run_count < MaxRuns
    /\ \E max_villages \in {None} \cup {Some(n) : n \in 0..MaxTopN}, start_from \in 0..MaxTopN :
         LET needs_poi == filter_villages_needing_poi(Val(run_env).data)
             remaining == IF start_from > 0 THEN FromRow(needs_poi, start_from) ELSE needs_poi
         IN  IF needs_poi = <<>>
             THEN /\ run_top' = <<>>
                  /\ run_pc' = "done"
             ELSE /\ run_top' = IF IsSome(max_villages) /\ Val(max_villages) # 0
                                 THEN HeadN(remaining, Val(max_villages))
                                 ELSE remaining
                  /\ run_pc' = "running"
    /\ run_index' = 0
    /\ run_assigned' = <<>>
    /\ report_data' = <<>>
    /\ run_count' = run_count + 1
    /\ UNCHANGED <<run_env, poi_cache, used_place_ids, notRun>>

\* the rest of an iteration, poi_result being what get_poi_for_village gave
VillageLocated(row, poi_result) ==
    LET found       == poi_result.Indicator_POI # ""
        all_results == IF found
                       THEN Append(report_data,
                                   [ row_index |-> row.row_index,
                                     Village_Name |-> row.Village_Name,
                                     Indicator_POI |-> poi_result.Indicator_POI,
                                     Indicator_Place_ID |-> poi_result.Indicator_Place_ID ])
                       ELSE report_data
    IN  /\ used_place_ids' =
             IF found /\ poi_result.Indicator_Place_ID # ""
             THEN used_place_ids \cup {poi_result.Indicator_Place_ID} ELSE used_place_ids
        /\ run_assigned' = Append(run_assigned, poi_result)
        /\ report_data' = all_results
        /\ run_env' = Some([Val(run_env) EXCEPT
                               !.data = AfterVillage(@, run_top, run_index + 1, all_results)])

\* one iteration of process_village_batch, with an API key; after the last
\* village of a batch the results are saved
BatchVillage ==
    /\ Val(run_env).runner = "agent2"
    /\ run_pc = "running"
    /\ run_index < Len(run_top)
    /\ Val(run_env).has_key
    /\ VillageLocated(run_top[run_index + 1],
                      get_poi_for_village(Val(run_top[run_index + 1].Latitude),
                                          used_place_ids, Val(run_env).world))
    /\ run_index' = run_index + 1
    /\ UNCHANGED <<run_pc, run_top, poi_cache, run_count, notRun>>

\* one iteration without an API key: the exception is caught and the loop
\* continues with the next village
BatchVillageFails ==
    /\ Val(run_env).runner = "agent2"
    /\ run_pc = "running"
    /\ run_index < Len(run_top)
    /\ ~Val(run_env).has_key
    /\ run_assigned' = Append(run_assigned, PoiResult("", "", "ERROR", 0))
    /\ run_index' = run_index + 1
    /\ run_env' = Some([Val(run_env) EXCEPT
                           !.data = AfterVillage(@, run_top, run_index + 1, report_data)])
    /\ UNCHANGED <<run_pc, run_top, poi_cache, used_place_ids, report_data, run_count, notRun>>

\* the loop is over: the report, or True after the summary of the batch
\* run, is returned
FinishRun ==
    /\ run_pc = "running"
    /\ run_index = Len(run_top)
    /\ Val(run_env).runner = "agent2" => run_top # <<>>
    /\ run_pc' = "done"
    /\ UNCHANGED <<run_env, run_top, run_index, poi_cache, used_place_ids, run_assigned,
                   report_data, run_count, notRun>>

\* the batch run had no village to process (start_from is past the last
\* one): the success rate of the summary divides by processed_count = 0 and
\* the run raises ZeroDivisionError
FinishBatchRaises ==
    /\ Val(run_env).runner = "agent2"
    /\ run_pc = "running"
    /\ run_top = <<>>
    /\ run_pc' = "raised"
    /\ UNCHANGED <<run_env, run_top, run_index, poi_cache, used_place_ids, run_assigned,
                   report_data, run_count, notRun>>

NextRun ==
    \/ StartReport
    \/ ReportZone
    \/ ReportZoneFails
    \/ LookupSalesZone
    \/ StartBatch
    \/ BatchVillage
    \/ BatchVillageFails
    \/ FinishRun
    \/ FinishBatchRaises

SpecRun == InitRun /\ [][NextRun]_vars

---------------------------------------------------------------------------
(* Properties of a run, under SpecRun *)

\* C1: within one run no two rows processed so far are assigned the same
\* non-empty place id, and every id assigned so far is in the run's exclusion
\* set, whatever the anchors, including anchors that round to the same cache
\* key.
C1_NoSharedPoi ==
    /\ \A i, j \in 1..Len(run_assigned) :
         (i # j /\ run_assigned[i].Indicator_Place_ID # "")
         => run_assigned[i].Indicator_Place_ID # run_assigned[j].Indicator_Place_ID
    /\ \A i \in 1..Len(run_assigned) :
         run_assigned[i].Indicator_Place_ID # ""
         => run_assigned[i].Indicator_Place_ID \in used_place_ids


---------------------------------------------------------------------------
(***************************************************************************)
(* Grid fallback: EnhancedPOIAgent._generate_nearby_happy_blocks.          *)
(* A string is the sequence of its characters, so that formatting and      *)
(* parsing an area id are computed character by character.  A decimal      *)
(* coordinate is an integer in 1/1000 degree (9.315 -> 9315), which is     *)
(* what grid / 1000 is in that unit.                                       *)
(***************************************************************************)
DigitVal(c) == CHOOSE d \in 0..9 : Digit[d + 1] = c

IsDigit(c) == \E d \in 0..9 : Digit[d + 1] = c

RECURSIVE ZeroPad(_, _)
ZeroPad(s, width) == IF Len(s) >= width THEN s ELSE ZeroPad(<<"0">> \o s, width)

\* f"{n:0<width>d}": the sign counts in the width, and a number wider than
\* the width is written in full
format_d(n, width) ==
    IF n < 0 THEN <<"-">> \o ZeroPad(DigitsOf(0 - n), width - 1)
    ELSE ZeroPad(DigitsOf(n), width)

\* s.split('-')
RECURSIVE split(_)
split(s) ==
    IF \A i \in 1..Len(s) : s[i] # "-" THEN <<s>>
    ELSE LET i == CHOOSE k \in 1..Len(s) :
                      s[k] = "-" /\ \A j \in 1..(k - 1) : s[j] # "-"
         IN  <<SubSeq(s, 1, i - 1)>> \o split(SubSeq(s, i + 1, Len(s)))

RECURSIVE DigitsValue(_)
DigitsValue(s) ==
    IF s = <<>> THEN 0 ELSE 10 * DigitsValue(SubSeq(s, 1, Len(s) - 1)) + DigitVal(s[Len(s)])

\* the vertical tab, the character 0x0b, for which a string has no escape
VerticalTab == ""

\* the characters int() skips at both ends of its argument (of the
\* characters of the model, which are ASCII): space, \t, \n, \v, \f, \r
Whitespace == {" ", "\t", "\n", VerticalTab, "\f", "\r"}

\* s.strip()
RECURSIVE strip(_)
strip(s) ==
    IF s = <<>> THEN s
    ELSE IF s[1] \in Whitespace THEN strip(Tail(s))
    ELSE IF s[Len(s)] \in Whitespace THEN strip(SubSeq(s, 1, Len(s) - 1))
    ELSE s

\* the digits of an integer literal, None when it is not one: digits with
\* single underscores between them
DigitsOfLiteral(body) ==
    LET Valid ==
            /\ body # <<>>
            /\ IsDigit(body[1])
            /\ IsDigit(body[Len(body)])
            /\ \A i \in 1..Len(body) : IsDigit(body[i]) \/ body[i] = "_"
            /\ \A i \in 1..(Len(body) - 1) : ~(body[i] = "_" /\ body[i + 1] = "_")
    IN  IF Valid THEN Some(SelectSeq(body, IsDigit)) ELSE None

\* int(s): surrounding whitespace is stripped; then an optional sign and
\* digits, with single underscores allowed between digits; None for
\* ValueError
int(s) ==
    LET t      == strip(s)
        signed == t # <<>> /\ t[1] \in {"+", "-"}
        digits == DigitsOfLiteral(IF signed THEN Tail(t) ELSE t)
    IN  IF digits = None THEN None
        ELSE IF signed /\ t[1] = "-" THEN Some(0 - DigitsValue(Val(digits)))
        ELSE Some(DigitsValue(Val(digits)))

\* lat_str, lng_str = current_id.split('-'); int(lat_str), int(lng_str):
\* None when the unpacking or either int() raises
parse_happy_block_id(current_id) ==
    LET parts == split(current_id)
    IN  IF Len(parts) # 2 THEN None
        ELSE IF int(parts[1]) = None \/ int(parts[2]) = None THEN None
        ELSE Some(<<Val(int(parts[1])), Val(int(parts[2]))>>)

ring1_offsets == <<<<0 - 5, 0>>, <<5, 0>>, <<0, 0 - 5>>, <<0, 5>>>>

ring2_offsets == <<<<0 - 5, 0 - 5>>, <<0 - 5, 5>>, <<5, 0 - 5>>, <<5, 5>>>>

ring3_offsets ==
    << <<0 - 10, 0>>, <<10, 0>>, <<0, 0 - 10>>, <<0, 10>>,
       <<0 - 10, 0 - 5>>, <<0 - 10, 5>>, <<10, 0 - 5>>, <<10, 5>> >>

NearbyBlock(lat_base, lng_base, offset) ==
    LET new_lat == lat_base + offset[1]
        new_lng == lng_base + offset[2]
    IN  [ id  |-> format_d(new_lat, 5) \o <<"-">> \o format_d(new_lng, 6),
          lat |-> new_lat,
          lng |-> new_lng ]

\* the list of (new_id, lat_decimal, lng_decimal), [] when parsing raises
_generate_nearby_happy_blocks(current_id) ==
    LET base    == parse_happy_block_id(current_id)
        offsets == ring1_offsets \o ring2_offsets \o ring3_offsets
    IN  IF base = None THEN <<>>
        ELSE [i \in 1..Len(offsets) |-> NearbyBlock(Val(base)[1], Val(base)[2], offsets[i])]

(* Area ids: the spec's example, cells next to the origin of the grid and  *)
(* to the end of the five/six digit range, and ids that do not parse.      *)
LatStrs ==
    { <<"0", "9", "3", "2", "0">>, <<"1", "3", "7", "5", "0">>,
      <<"0", "0", "0", "1", "0">>, <<"0", "0", "0", "0", "9">>,
      <<"0", "0", "0", "0", "5">>, <<"0", "0", "0", "0", "0">>,
      <<"9", "9", "9", "8", "9">>, <<"9", "9", "9", "9", "5">> }

LngStrs ==
    { <<"0", "9", "9", "7", "0", "0">>, <<"1", "0", "0", "5", "0", "0">>,
      <<"0", "0", "0", "0", "1", "0">>, <<"0", "0", "0", "0", "0", "4">>,
      <<"9", "9", "9", "9", "8", "9">>, <<"9", "9", "9", "9", "9", "9">> }

MalformedIds ==
    { <<"0", "9", "3", "2", "0">>,
      <<"0", "9", "3", "2", "0", "-">>,
      <<"H", "B", "-", "0", "9", "9", "7", "0", "0">>,
      <<"0", "9", "3", "2", "0", "-", "0", "9", "9", "7", "0", "0", "-", "1">> }

\* ids that int() accepts although they are not plain digits: surrounding
\* whitespace (blank, newline, vertical tab), an underscore between digits,
\* a sign
LenientIds ==
    { <<" ", "0", "9", "3", "2", "0", "-", "0", "9", "9", "7", "0", "0">>,
      <<"0", "9", "3", "2", "0", " ", "-", "0", "9", "9", "7", "0", "0", "\n">>,
      <<"0", "9", "_", "3", "2", "0", "-", "0", "9", "9", "7", "0", "0">>,
      <<"+", "9", "3", "2", "0", "-", "0", "9", "9", "7", "0", "0">>,
      <<"0", "9", "3", "2", "0", "_", "-", "0", "9", "9", "7", "0", "0">>,
      <<"0", "9", "3", " ", "2", "0", "-", "0", "9", "9", "7", "0", "0">>,
      <<VerticalTab, "0", "9", "3", "2", "0", "-", "0", "9", "9", "7", "0", "0", VerticalTab>> }

AreaIds ==
    {a \o <<"-">> \o g : a \in LatStrs, g \in LngStrs} \cup MalformedIds \cup LenientIds

InitGrid ==
    /\ \E id \in AreaIds : grid_id = Some(id)
    /\ grid_blocks = None
    /\ grid_back = None
    /\ IdleScore
    /\ IdleProc
    /\ IdlePeak
    /\ IdleTiming
    /\ IdleLoc
    /\ IdleRun
    /\ IdleAgent
    /\ IdleRes
    /\ IdleEnh

\* nearby_blocks = self._generate_nearby_happy_blocks(happy_block_id)
GenerateNearby ==
    /\ IsSome(grid_id)
    /\ grid_blocks = None
    /\ grid_blocks' = Some(_generate_nearby_happy_blocks(Val(grid_id)))
    /\ UNCHANGED <<grid_id, grid_back, notGrid>>

\* the same call on one of the neighbour ids just generated
GenerateFromNeighbour ==
    /\ IsSome(grid_blocks)
    /\ grid_back = None
    /\ \E i \in 1..Len(Val(grid_blocks)) :
          grid_back' = Some([ index  |-> i,
                              blocks |-> _generate_nearby_happy_blocks(Val(grid_blocks)[i].id) ])
    /\ UNCHANGED <<grid_id, grid_blocks, notGrid>>

NextGrid ==
    \/ GenerateNearby
    \/ GenerateFromNeighbour

SpecGrid == InitGrid /\ [][NextGrid]_vars

IsAreaIdFormat(id) ==
    /\ Len(id) = 12
    /\ id[6] = "-"
    /\ \A i \in (1..5) \cup (7..12) : IsDigit(id[i])

Offsets == ring1_offsets \o ring2_offsets \o ring3_offsets

\* C11: for an area id 'LLLLL-GGGGGG' the generated list is the 16 cells at
\* the ring 1, ring 2, ring 3 offsets from the decoded grid pair, in that
\* order, pairwise distinct and none the anchor; each id is the zero-padded
\* 5/6 digit form of its cell and decodes back to that cell (so that the
\* same call on a neighbour id again yields 16 cells around that cell); the
\* decimal coordinate is grid/1000.
C11_NeighbourRings ==
    /\ (IsSome(grid_blocks) /\ IsAreaIdFormat(Val(grid_id))) =>
          LET id     == Val(grid_id)
              lat    == DigitsValue(SubSeq(id, 1, 5))
              lng    == DigitsValue(SubSeq(id, 7, 12))
              blocks == Val(grid_blocks)
          IN  /\ Len(blocks) = 16
              /\ \A i \in 1..16 :
                    /\ blocks[i].lat = lat + Offsets[i][1]
                    /\ blocks[i].lng = lng + Offsets[i][2]
                    /\ IsAreaIdFormat(blocks[i].id)
                    /\ parse_happy_block_id(blocks[i].id) = Some(<<blocks[i].lat, blocks[i].lng>>)
                    /\ blocks[i].id # id
              /\ \A i, j \in 1..16 : i # j => blocks[i].id # blocks[j].id
    /\ (IsSome(grid_back) /\ IsAreaIdFormat(Val(grid_id))) =>
          LET n    == Val(grid_blocks)[Val(grid_back).index]
              back == Val(grid_back).blocks
          IN  /\ Len(back) = 16
              /\ \A i \in 1..16 :
                    /\ back[i].lat = n.lat + Offsets[i][1]
                    /\ back[i].lng = n.lng + Offsets[i][2]


---------------------------------------------------------------------------
(* Re-running the processor over an unchanged csv, under SpecRerun *)


---------------------------------------------------------------------------
(* Required fields, under SpecProc *)

RequiredFields ==
    { "splt_l2", "happy_block", "village", "lat_happy_block", "long_happy_block",
      "sum_tol_port", "sum_tol_avail", "inservice_aging" }

\* C13: after load_data no row of the dataframe misses a required field
\* (unit id, area id, locality name, coordinates, total capacity, available
\* capacity, age in service), so no such row is scored or aggregated.
C13_NoIncompleteRow ==
    IsSome(df) =>
        \A i \in 1..Len(Val(df).rows) :
            \A f \in RequiredFields : IsSome(Val(df).rows[i][f])


---------------------------------------------------------------------------
(* Specification SpecMalformed: one L2DatabaseProcessor over a csv file    *)
(* in which a unit may have a numeric field that is not a number           *)

\* a token that is neither a number nor one of the empty-field spellings
NotANumber == Text(<<"1", "2", "x">>)

\* units with numbers in every numeric field; the third has no ports
SoundRows ==
    { CsvRow(Some(1), Some(1), Some(1), Some(BlockLat[1]), <<10, 4, 100>>),
      CsvRow(Some(1), Some(2), Some(1), Some(BlockLat[2]), <<10, 10, 300>>),
      CsvRow(Some(1), Some(1), Some(1), Some(BlockLat[1]), <<0, 4, 100>>) }

\* units with one malformed numeric field
MalformedRows ==
    LET unit == CsvRow(Some(1), Some(2), Some(1), Some(BlockLat[2]), <<10, 4, 100>>)
    IN  { [unit EXCEPT !.sum_tol_avail = NotANumber],
          [unit EXCEPT !.sum_tol_port = NotANumber],
          [unit EXCEPT !.inservice_aging = NotANumber] }

IsMalformed(r) == \E f \in NumericColumns : IsText(r[f])

MalformedFiles == UNION { [1..n -> SoundRows \cup MalformedRows] : n \in 1..MaxUnits }

InitMalformed ==
    /\ IdleScore
    /\ IdlePeak
    /\ IdleTiming
    /\ IdleLoc
    /\ IdleRun
    /\ IdleGrid
    /\ IdleAgent
    /\ IdleRes
    /\ IdleEnh
    /\ csv \in MalformedFiles
    /\ df = None
    /\ happy_blocks_df = None
    /\ sales_zones_df = None
    /\ prioritized = None
    /\ last_error = "none"
    /\ proc_hist = None

NextMalformed ==
    \/ NextProc
    \/ CalculatePriorityScoresAborts

SpecMalformed == InitMalformed /\ [][NextMalformed]_vars

\* C14: a unit with a malformed numeric field does not abort scoring: its
\* exception is caught and its priority_score is 0.0, every other unit has
\* the score, label and installation status of its own fields, no call ends
\* in the TypeError, and the malformed unit stays in the dataframe and is
\* counted in the L2_Count of its area.
C14_MalformedUnitIsolated ==
    /\ last_error # "TypeError"
    /\ (IsSome(df) /\ Val(df).scored) =>
          LET rows == Val(df).rows
          IN  /\ Len(rows) = Len(csv)
              /\ \A i \in 1..Len(rows) :
                    IF IsMalformed(csv[i])
                    THEN rows[i].priority_score = Some(0)
                    ELSE /\ rows[i].priority_score = calculate_priority_score(csv[i])
                         /\ rows[i].priority_label =
                               get_priority_label(calculate_priority_score(csv[i]))
                         /\ rows[i].installation_status =
                               get_installation_status(csv[i].inservice_aging)
    /\ IsSome(happy_blocks_df) =>
          SumSeq(Column(Val(happy_blocks_df), "L2_Count")) = Len(csv)


---------------------------------------------------------------------------
(***************************************************************************)
(* EnhancedPOIAgent: the search at the anchor of an area and the fallback  *)
(* over the neighbour cells.  Search centre 0 is the anchor (lat_hb,       *)
(* lng_hb), centre i >= 1 is the i-th generated neighbour cell.  The       *)
(* provider's answer at a centre is given by the world: the stores it      *)
(* returns there, each with the distance_km that find_nearby_places        *)
(* computes from its geometry, in hundredths of a kilometre (None: the     *)
(* result has no geometry).  The result fields poi_address, rating,        *)
(* poi_remark and distance_from_hb are left out.                           *)
(***************************************************************************)
AgentStrategy(keyword, priority) ==
    [keyword |-> keyword, type |-> "convenience_store", priority |-> priority]

\* search_strategies of _search_poi_in_radius, the Thai keyword transliterated
agent_search_strategies ==
    << AgentStrategy("7-Eleven", 1), AgentStrategy("Seven (th)", 1),
       AgentStrategy("Seven Eleven", 1),
       AgentStrategy("FamilyMart", 2), AgentStrategy("Family Mart", 2),
       AgentStrategy("Lotus Go Fresh", 3), AgentStrategy("Lotus Express", 3),
       AgentStrategy("Lotus Mini", 3),
       AgentStrategy("Big C Go Fresh", 4), AgentStrategy("Big C Mini", 4),
       AgentStrategy("CP Freshmart", 5), AgentStrategy("Mini Mart", 5),
       AgentStrategy("108 Shop", 5), AgentStrategy("Lawson", 5) >>

Store(place_id, name, types, km, keywords, cell) ==
    [ place_id |-> place_id, name |-> name, types |-> types, distance_km |-> km,
      keywords |-> keywords, cell |-> cell ]

\* the cells a store may lie in: the anchor, the first cell of ring 1, the
\* first cell of ring 2 and the last cell of ring 3
StoreCells == <<0, 1, 5, 16>>

\* the stores of the provider, in the order it lists them. In the last cell
\* the 7-Eleven is 2.06 km and the FamilyMart 0.06 km from the centre: the
\* scores 2 + 2.06 and 4 + 0.06 are equal as decimals and differ as doubles
StoresOfCell(cell) ==
    << Store("a1", "7-Eleven Hat Yai 1", {"convenience_store"},
             IF cell = 16 THEN Some(206) ELSE Some(10),
             {"7-Eleven", "Seven Eleven"}, cell),
       Store("a2", "FamilyMart Kho Hong", {"convenience_store"},
             IF cell = 16 THEN Some(6) ELSE Some(5),
             {"FamilyMart", "Family Mart"}, cell),
       Store("a3", "Lotus Go Fresh Plaza", {"supermarket"}, Some(20),
             {"Lotus Go Fresh"}, cell),
       Store("a4", "Mini Mart 108", {"store"}, None,
             {"7-Eleven"}, cell) >>

StoreCatalogue ==
    StoresOfCell(StoreCells[1]) \o StoresOfCell(StoreCells[2])
    \o StoresOfCell(StoreCells[3]) \o StoresOfCell(StoreCells[4])

\* any(keyword in place_name.upper() for keyword in exclude_keywords), for
\* the names of the catalogue ('PLAZA')
IsLargeFormat(name) == name \in {"Lotus Go Fresh Plaza"}

\* x.get("distance_km", float('inf')) as a sort key
KmKey(s) == IF IsSome(s.distance_km) THEN Val(s.distance_km) ELSE 1000000

\* places.sort(key=distance_km): stable
InsertByKm(sorted, s) ==
    LET k == Cardinality({i \in 1..Len(sorted) : KmKey(sorted[i]) <= KmKey(s)})
    IN  SubSeq(sorted, 1, k) \o <<s>> \o SubSeq(sorted, k + 1, Len(sorted))

RECURSIVE SortByKm(_)
SortByKm(places) ==
    IF places = <<>> THEN <<>>
    ELSE InsertByKm(SortByKm(SubSeq(places, 1, Len(places) - 1)), places[Len(places)])

\* gmaps_client.find_nearby_places at a centre, answered with status OK
places_near_centre(world, centre, keyword) ==
    LET Found(s) == s \in world /\ s.cell = centre /\ keyword \in s.keywords
    IN  SortByKm(SelectSeq(StoreCatalogue, Found))

\* filtered_places of one strategy: the large-format names dropped, the
\* rest tagged with the priority and keyword of the strategy
filtered_places(places, strategy) ==
    LET Small(s) == ~IsLargeFormat(s.name)
        kept     == SelectSeq(places, Small)
    IN  [i \in 1..Len(kept) |->
           [ store |-> kept[i], search_priority |-> strategy.priority,
             search_keyword |-> strategy.keyword ]]

RECURSIVE all_places(_, _, _, _)
\* all_places from strategy k on; a query that fails adds nothing
all_places(world, centre, k, failed) ==
    IF k > Len(agent_search_strategies) THEN <<>>
    ELSE (IF <<centre, k>> \in failed THEN <<>>
          ELSE filtered_places(
                   places_near_centre(world, centre, agent_search_strategies[k].keyword),
                   agent_search_strategies[k]))
         \o all_places(world, centre, k + 1, failed)

RECURSIVE unique_places(_, _)
\* deduplicate by place_id: the first place of each non-empty id
unique_places(unique, places) ==
    IF places = <<>> THEN unique
    ELSE LET id   == Head(places).store.place_id
             keep == id # "" /\ \A i \in 1..Len(unique) : unique[i].store.place_id # id
         IN  unique_places(IF keep THEN Append(unique, Head(places)) ELSE unique, Tail(places))

\* (priority * 2) + distance, a double; distance_km is the double of its
\* two decimals, 10 by default
select_score(place) ==
    FAdd(DOfInt(place.search_priority * 2),
         IF IsSome(place.store.distance_km) THEN FOfRatio(Val(place.store.distance_km), 100)
         ELSE DOfInt(10))

\* _select_best_poi: the first place of the lowest score (score < best_score)
_select_best_poi(places) ==
    places[CHOOSE i \in 1..Len(places) :
             /\ \A j \in 1..Len(places) :
                   DCmp(select_score(places[i]), select_score(places[j])) <= 0
             /\ \A j \in 1..(i - 1) :
                   DCmp(select_score(places[j]), select_score(places[i])) > 0]

\* brand in name.upper() for the brands "7-ELEVEN" and the Thai seven, for
\* the names of the catalogue
HasSevenName(name) == name \in {"7-Eleven Hat Yai 1"}

_determine_confidence_level(poi) ==
    LET distance == IF IsSome(poi.store.distance_km) THEN Val(poi.store.distance_km) ELSE 1000
        types    == poi.store.types
    IN  IF distance <= 50 /\ ("convenience_store" \in types \/ HasSevenName(poi.store.name))
        THEN "HIGH"
        ELSE IF distance <= 100 /\ ("convenience_store" \in types \/ "supermarket" \in types)
        THEN "MEDIUM"
        ELSE "LOW"

\* _search_poi_in_radius at a centre: the POI record or None
_search_poi_in_radius(world, centre, failed) ==
    LET unique == unique_places(<<>>, all_places(world, centre, 1, failed))
    IN  IF unique = <<>> THEN None
        ELSE LET best_poi_ == _select_best_poi(unique)
             IN  Some([ poi_name         |-> best_poi_.store.name,
                        poi_place_id     |-> best_poi_.store.place_id,
                        distance_km      |-> IF IsSome(best_poi_.store.distance_km)
                                             THEN Val(best_poi_.store.distance_km) ELSE 0,
                        confidence_level |-> _determine_confidence_level(best_poi_),
                        search_keyword   |-> best_poi_.search_keyword,
                        types            |-> best_poi_.store.types ])

\* the three results of find_poi_for_happy_block
FoundCurrent(poi_result, happy_block_id) ==
    poi_result @@ [happy_block_id |-> happy_block_id, search_status |-> "found_current"]

FoundNearby(poi_result, happy_block_id, nearby_id) ==
    poi_result @@ [ happy_block_id |-> happy_block_id, search_status |-> "found_nearby",
                    source_happy_block |-> nearby_id ]

NotFound(happy_block_id) ==
    [ happy_block_id |-> happy_block_id, search_status |-> "not_found", poi_name |-> "",
      poi_place_id |-> "", confidence_level |-> "NONE" ]


---------------------------------------------------------------------------
(* Specification SpecAgent: one find_poi_for_happy_block call of a newly   *)
(* constructed EnhancedPOIAgent, one search centre per step                *)

MaxStores == 2    \* stores the provider knows around the area

\* the strategies whose query may fail: '7-Eleven' and 'FamilyMart'
FailableQueries == {1, 4}

\* the centres at which a query may fail: the cells a store may lie in (at
\* any other centre a failed query answers what it answers when it succeeds:
\* nothing)
FailableCentres == Range(StoreCells)

AgentWorlds == SubsetsUpTo(Range(StoreCatalogue), MaxStores)

AgentAreaIds ==
    { <<"0", "9", "3", "2", "0", "-", "0", "9", "9", "7", "0", "0">>,
      <<"H", "B", "-", "0", "9", "9", "7", "0", "0">> }

AgentExcludedSets == SUBSET {"a1"}

InitAgent ==
    /\ IdleScore
    /\ IdleProc
    /\ IdlePeak
    /\ IdleTiming
    /\ IdleLoc
    /\ IdleRun
    /\ IdleGrid
    /\ IdleRes
    /\ IdleEnh
    /\ \E id \in AgentAreaIds, world \in AgentWorlds, excluded \in AgentExcludedSets,
          has_key \in BOOLEAN :
         ag_call = Some([ happy_block_id |-> id, excluded_place_ids |-> excluded,
                          world |-> world, has_key |-> has_key ])
    /\ ag_pc = "start"
    /\ ag_blocks = <<>>
    /\ ag_index = 0
    /\ ag_log = <<>>
    /\ ag_failed = {}
    /\ ag_result = None

\* the queries of one _search_poi_in_radius call, in the order sent
QueriesAt(centre) == [k \in 1..Len(agent_search_strategies) |-> <<centre, k>>]

\* the queries that may fail during the search at a centre
FailuresAt(centre) ==
    IF centre \in FailableCentres
    THEN { F \in SUBSET {<<centre, k>> : k \in FailableQueries} :
             Cardinality(ag_failed \cup F) <= MaxFailures }
    ELSE {{}}

\* EnhancedPOIAgent(): GoogleMapsClient() raises RuntimeError without an
\* API key
AgentWithoutKey ==
    /\ ag_pc = "start"
    /\ ~Val(ag_call).has_key
    /\ ag_pc' = "done"
    /\ ag_result' = Some(Raised)
    /\ UNCHANGED <<ag_call, ag_blocks, ag_index, ag_log, ag_failed, notAgent>>

\* step 1: the search at the anchor; a hit is returned, else the neighbour
\* cells are generated
SearchCurrent ==
    /\ ag_pc = "start"
    /\ Val(ag_call).has_key
    /\ \E F \in FailuresAt(0) :
         LET poi_result == _search_poi_in_radius(Val(ag_call).world, 0, ag_failed \cup F)
         IN  /\ ag_failed' = ag_failed \cup F
             /\ IF IsSome(poi_result)
                THEN /\ ag_result' = Some(Returned(FoundCurrent(Val(poi_result),
                                                                Val(ag_call).happy_block_id)))
                     /\ ag_pc' = "done"
                     /\ UNCHANGED <<ag_blocks, ag_index>>
                ELSE /\ ag_blocks' = _generate_nearby_happy_blocks(Val(ag_call).happy_block_id)
                     /\ ag_index' = 1
                     /\ ag_pc' = "nearby"
                     /\ UNCHANGED ag_result
    /\ ag_log' = ag_log \o QueriesAt(0)
    /\ UNCHANGED <<ag_call, notAgent>>

\* a fallback that moves on by two neighbours after a miss
SearchNearby_skips ==
    /\ ag_pc = "nearby"
    /\ ag_index <= Len(ag_blocks)
    /\ \E F \in FailuresAt(ag_index) :
         LET poi_result == _search_poi_in_radius(Val(ag_call).world, ag_index,
                                                 ag_failed \cup F)
         IN  /\ ag_failed' = ag_failed \cup F
             /\ IF IsSome(poi_result)
                THEN /\ ag_result' = Some(Returned(FoundNearby(Val(poi_result),
                                                               Val(ag_call).happy_block_id,
                                                               ag_blocks[ag_index].id)))
                     /\ ag_pc' = "done"
                     /\ UNCHANGED ag_index
                ELSE /\ ag_index' = ag_index + 2
                     /\ UNCHANGED <<ag_pc, ag_result>>
    /\ ag_log' = ag_log \o QueriesAt(ag_index)
    /\ UNCHANGED <<ag_call, ag_blocks, notAgent>>

\* step 2: the search at the next neighbour cell
SearchNearby ==
    /\ ag_pc = "nearby"
    /\ ag_index <= Len(ag_blocks)
    /\ \E F \in FailuresAt(ag_index) :
         LET poi_result == _search_poi_in_radius(Val(ag_call).world, ag_index,
                                                 ag_failed \cup F)
         IN  /\ ag_failed' = ag_failed \cup F
             /\ IF IsSome(poi_result)
                THEN /\ ag_result' = Some(Returned(FoundNearby(Val(poi_result),
                                                               Val(ag_call).happy_block_id,
                                                               ag_blocks[ag_index].id)))
                     /\ ag_pc' = "done"
                     /\ UNCHANGED ag_index
                ELSE /\ ag_index' = ag_index + 1
                     /\ UNCHANGED <<ag_pc, ag_result>>
    /\ ag_log' = ag_log \o QueriesAt(ag_index)
    /\ UNCHANGED <<ag_call, ag_blocks, notAgent>>

\* step 3: no neighbour is left
AgentNotFound ==
    /\ ag_pc = "nearby"
    /\ ag_index > Len(ag_blocks)
    /\ ag_result' = Some(Returned(NotFound(Val(ag_call).happy_block_id)))
    /\ ag_pc' = "done"
    /\ UNCHANGED <<ag_call, ag_blocks, ag_index, ag_log, ag_failed, notAgent>>

NextAgent ==
    \/ AgentWithoutKey
    \/ SearchCurrent
    \/ SearchNearby
    \/ AgentNotFound

SpecAgent == InitAgent /\ [][NextAgent]_vars


---------------------------------------------------------------------------
(* Specification SpecLocators: one locate call, of either locator *)

InitLocators == InitLocate \/ InitAgent

NextLocators == NextLocate \/ NextAgent

SpecLocators == InitLocators /\ [][NextLocators]_vars

\* the stores a search at centre c can return: in the cell, with an id, not
\* of a large-format name, found by a query that did not fail
EligibleAt(c) ==
    { s \in Val(ag_call).world :
        /\ s.cell = c
        /\ s.place_id # ""
        /\ ~IsLargeFormat(s.name)
        /\ \E k \in 1..Len(agent_search_strategies) :
              /\ <<c, k>> \notin ag_failed
              /\ agent_search_strategies[k].keyword \in s.keywords }

AgentReturned == ag_pc = "done" /\ ~Val(ag_result).raised

LocateReturned == loc_pc = "done" /\ ~Val(loc_result).raised

\* C15: a provider error on one query counts as no results for that query:
\* a locate call with credentials never raises; the tiered locate returns
\* what it returns when the failed queries answer nothing, so None only if
\* no other query of any tier found a valid candidate; the area search
\* returns a store found by another query at the first centre that has one,
\* and not_found only if no other query at any centre found a store.
C15_FailedQueryIsNoResult ==
    /\ (loc_pc = "done" /\ Val(loc_call).has_key) =>
          /\ ~Val(loc_result).raised
          /\ Val(loc_result).value =
                find_nearest_convenience_store_for_residential_analysis(
                    Val(loc_call).lat, Val(loc_call).excluded_place_ids,
                    Val(loc_call).world, loc_failed)
          /\ (Val(loc_result).value = None => \A t \in 1..3 : CandidatesOfTier(t) = {})
    /\ (ag_pc = "done" /\ Val(ag_call).has_key) =>
          /\ ~Val(ag_result).raised
          /\ LET r == Val(ag_result).value
             IN  /\ r.search_status = "found_current" =>
                       \E s \in EligibleAt(0) : s.place_id = r.poi_place_id
                 /\ r.search_status = "found_nearby" =>
                       /\ \E s \in EligibleAt(ag_index) : s.place_id = r.poi_place_id
                       /\ \A c \in 0..(ag_index - 1) : EligibleAt(c) = {}
                 /\ r.search_status = "not_found" =>
                       \A c \in 0..Len(ag_blocks) : EligibleAt(c) = {}

\* a tiered locate in which the '7-Eleven' query of tier 1 failed and the
\* store it would have found is returned from another query, and an area
\* search in which the same happened at the anchor
C15_Witness ==
    \/ /\ LocateReturned
       /\ <<1, 1>> \in loc_failed
       /\ IsSome(Val(loc_result).value)
       /\ Val(Val(loc_result).value).place_id = "s1"
       /\ Val(Val(loc_result).value).search_keyword = "Seven (th)"
    \/ /\ AgentReturned
       /\ <<0, 1>> \in ag_failed
       /\ Val(ag_result).value.search_status = "found_current"
       /\ Val(ag_result).value.poi_place_id = "a1"
       /\ Val(ag_result).value.search_keyword = "Seven Eleven"



\* ---------------------------------------------------------------------------
\* C16: missing credentials disable the capability instead of raising
\* ---------------------------------------------------------------------------

\* C16: a locate call or an agent construction made without the Google Maps
\* key set finishes by returning (None or a profile), it never ends by raising
C16_NoKeyReturnsNormally ==
    /\ (loc_pc = "done" /\ ~Val(loc_call).has_key) => ~Val(loc_result).raised
    /\ (ag_pc = "done" /\ ~Val(ag_call).has_key) => ~Val(ag_result).raised



\* ---------------------------------------------------------------------------
\* C17: a locate call never returns an excluded POI
\* ---------------------------------------------------------------------------

\* C17: the POI a locate call returns, from the tiered locate or from the
\* area search of the agent (at the anchor or at a neighbour), never carries
\* an identifier of the excluded set the caller passed
C17_NeverReturnsExcluded ==
    /\ (LocateReturned /\ IsSome(Val(loc_result).value)) =>
          Val(Val(loc_result).value).place_id \notin Val(loc_call).excluded_place_ids
    /\ (AgentReturned /\ Val(ag_result).value.search_status # "not_found") =>
          Val(ag_result).value.poi_place_id \notin Val(ag_call).excluded_place_ids




\* ---------------------------------------------------------------------------
\* C18: grid fallback runs after a miss at the anchor, in ring order
\* ---------------------------------------------------------------------------

\* C18: the centres of one find_poi_for_happy_block call are searched in the
\* order anchor, ring 1, ring 2, ring 3 (list order), each once; a neighbour is
\* searched only when the anchor and every earlier neighbour yielded nothing;
\* a hit at the anchor is reported as 'found_current', a hit at a neighbour as
\* 'found_nearby' with that neighbour's id as source, and 'not_found' with
\* confidence NONE only when the anchor and all 16 neighbours yield nothing or
\* the area id cannot be decoded
C18_RingOrderFallback ==
    (ag_pc # "idle" /\ Val(ag_call).has_key) =>
        LET call     == Val(ag_call)
            N        == Len(agent_search_strategies)
            found(c) == _search_poi_in_radius(call.world, c, ag_failed)
            searched == Len(ag_log) \div N
        IN  /\ \A i \in 1..Len(ag_log) : ag_log[i] = <<(i - 1) \div N, ((i - 1) % N) + 1>>
            /\ searched <= Len(ag_blocks) + 1
            /\ searched >= 2 =>
                  /\ ag_blocks = _generate_nearby_happy_blocks(call.happy_block_id)
                  /\ \A b \in 0..(searched - 2) : found(b) = None
            /\ AgentReturned =>
                  LET r == Val(ag_result).value
                  IN  /\ (r.search_status = "found_current") <=> (found(0) # None)
                      /\ r.search_status = "found_current" =>
                            /\ searched = 1
                            /\ r.poi_place_id = Val(found(0)).poi_place_id
                      /\ r.search_status = "found_nearby" =>
                            /\ searched >= 2
                            /\ found(searched - 1) # None
                            /\ r.poi_place_id = Val(found(searched - 1)).poi_place_id
                            /\ r.source_happy_block = ag_blocks[searched - 1].id
                      /\ r.search_status = "not_found" =>
                            /\ r.confidence_level = "NONE"
                            /\ ag_blocks = _generate_nearby_happy_blocks(call.happy_block_id)
                            /\ searched = Len(ag_blocks) + 1
                            /\ \A c \in 0..Len(ag_blocks) : found(c) = None
                            /\ \/ Len(ag_blocks) = 16
                               \/ parse_happy_block_id(call.happy_block_id) = None
                      /\ r.search_status \in {"found_current", "found_nearby", "not_found"}

\* a call that found nothing at the anchor nor in ring 1 and returns the
\* store of the first cell of ring 2
C18_Witness ==
    /\ AgentReturned
    /\ Val(ag_result).value.search_status = "found_nearby"
    /\ ag_index = 5
    /\ Len(ag_log) = 6 * Len(agent_search_strategies)
    /\ Val(ag_result).value.source_happy_block =
          <<"0", "9", "3", "1", "5", "-", "0", "9", "9", "6", "9", "5">>



\* ---------------------------------------------------------------------------
\* C19: the dominant value of a group, ties resolved by group order
\* ---------------------------------------------------------------------------

\* the most frequent value of a series, the one occurring first in the series
\* when several are most frequent
FirstMostFrequent(s) ==
    LET top == {v \in Range(s) : \A w \in Range(s) : Count(s, w) <= Count(s, v)}
        FirstAt(v) == CHOOSE i \in 1..Len(s) : s[i] = v /\ \A j \in 1..(i - 1) : s[j] # v
    IN  CHOOSE v \in top : \A w \in top : FirstAt(v) <= FirstAt(w)

\* C19: the status and the priority label of an area are the most frequent
\* ones of its units, and those of a zone the most frequent ones of its areas;
\* among several most frequent values it is the one occurring first in the
\* group
C19_DominantFirstInGroupOrder ==
    /\ (IsSome(df) /\ Val(df).scored /\ IsSome(happy_blocks_df)) =>
          \A k \in 1..Len(Val(happy_blocks_df)) :
              LET hb == Val(happy_blocks_df)[k]
                  InGroup(r) == r.happy_block = Some(hb.Happy_Block)
                  g == SelectSeq(Val(df).rows, InGroup)
              IN  /\ hb.Installation_Status =
                         FirstMostFrequent(Column(g, "installation_status"))
                  /\ hb.Priority_Label = FirstMostFrequent(Column(g, "priority_label"))
    /\ (IsSome(happy_blocks_df) /\ IsSome(sales_zones_df)) =>
          \A k \in 1..Len(Val(sales_zones_df)) :
              LET z == Val(sales_zones_df)[k]
                  InVillage(hb) == hb.Village_Name = z.Village_Name
                  village_blocks == SelectSeq(Val(happy_blocks_df), InVillage)
              IN  z.Happy_Block_Count >= 2 =>
                     /\ z.Installation_Status =
                            FirstMostFrequent(Column(village_blocks, "Installation_Status"))
                     /\ z.Priority_Label =
                            FirstMostFrequent(Column(village_blocks, "Priority_Label"))



\* ---------------------------------------------------------------------------
\* C20: the peaks of a day type are its three busiest qualifying hours
\* ---------------------------------------------------------------------------

\* C20: when the corrector serves a live analysis whose only weekday with hour
\* records is Monday, the weekday peaks are the (up to) three qualifying hours
\* (not the sentinel, at or above the threshold 1) of highest intensity, as
\* 'HH:00' strings in ascending hour order: no chosen hour has a lower
\* intensity than a qualifying hour left out
C20_PeaksAreBusiestHours ==
    (/\ IsSome(tm_call)
     /\ Val(tm_call).entry = "app"
     /\ Val(tm_call).has_key
     /\ HasAnalysis(Val(tm_call))
     /\ Val(Val(Val(tm_call).response.body).analysis).fmt = "list"
     /\ Len(Val(Val(Val(tm_call).response.body).analysis).days) >= 5) =>
        LET days == Val(Val(Val(tm_call).response.body).analysis).days
            monday == days[1]
            qualifying == { j \in 1..Len(monday) :
                              /\ monday[j].intensity_nr # 999
                              /\ monday[j].intensity_nr >= 1 }
        IN  ((\A d \in 2..5 : days[d] = <<>>) /\ qualifying # {}) =>
                \E chosen \in SUBSET qualifying :
                    /\ Cardinality(chosen) = Min(3, Cardinality(qualifying))
                    /\ \A c \in chosen : \A u \in qualifying \ chosen :
                          monday[c].intensity_nr >= monday[u].intensity_nr
                    /\ Val(tm_profile).timing_weekday =
                          JoinComma(FormatHours(SortInts({monday[j].hour : j \in chosen})))



\* ---------------------------------------------------------------------------
\* C21: the report's timing path filters the closed sentinel out first
\* ---------------------------------------------------------------------------

\* the analysis without its sentinel-valued hour records, day by day
WithoutClosed(analysis) ==
    LET Open(item) == item[2] # 999
    IN  [analysis EXCEPT !.days =
            [i \in 1..Len(analysis.days) |->
                <<analysis.days[i][1], SelectSeq(analysis.days[i][2], Open)>>]]

\* C21: the peaks, the best day and the activity level the report generator
\* derives from an analysis are those of the analysis with its
\* sentinel-valued hour records removed: a sentinel hour is never a peak and
\* never enters the best-day mean or the activity-level mean
C21_ReportIgnoresClosed ==
    (/\ IsSome(tm_call)
     /\ Val(tm_call).entry = "report"
     /\ Val(tm_call).venue_name # ""
     /\ Val(tm_call).has_key
     /\ HasAnalysis(Val(tm_call))
     /\ Val(Val(Val(tm_call).response.body).analysis).fmt = "dict") =>
        LET open == WithoutClosed(Val(Val(Val(tm_call).response.body).analysis))
            p    == Val(tm_profile)
        IN  /\ p.timing_weekday = JoinComma(FormatHours(_extract_peak_hours(open, "weekday")))
            /\ p.timing_weekend = JoinComma(FormatHours(_extract_peak_hours(open, "weekend")))
            /\ p.best_day = _get_best_day(open)
            /\ p.activity_level = _get_activity_level(open)



\* ---------------------------------------------------------------------------
\* C22: the best candidate of the chosen tier
\* ---------------------------------------------------------------------------

\* C22: the POI a tiered locate returns is a valid candidate of the tier it
\* was found in that minimises distance less bonus (0.5 km for a
\* convenience-store category or a brand name, 0.2 km for a supermarket
\* category, 0 otherwise) over all valid candidates of that tier; of the
\* candidates of that score it is the one met first in the merged answers of
\* the tier's queries; and it lies within the tier's maximum distance
C22_BestScoreInTier ==
    (LocateReturned /\ IsSome(Val(loc_result).value)) =>
        LET poi      == Val(Val(loc_result).value)
            dist(p)  == calculate_distance(Val(loc_call).lat, Val(p.lat))
            score(p) == IF "convenience_store" \in p.types \/ HasBrandName(p.name)
                        THEN FSub(dist(p), FOfRatio(5, 10))
                        ELSE IF "supermarket" \in p.types
                        THEN FSub(dist(p), FOfRatio(2, 10))
                        ELSE dist(p)
            FirstSeen(p) ==
                CHOOSE i \in 1..Len(loc_zone_places) :
                    /\ loc_zone_places[i].place.place_id = p.place_id
                    /\ \A j \in 1..(i - 1) : loc_zone_places[j].place.place_id # p.place_id
        IN  \E best \in CandidatesOfTier(LastTier) :
                /\ best.place_id = poi.place_id
                /\ DCmp(poi.distance_km, dist(best)) = 0
                /\ DCmp(poi.distance_km, DOfInt(search_strategies[LastTier].max_distance)) <= 0
                /\ \A c \in CandidatesOfTier(LastTier) :
                      /\ DCmp(score(best), score(c)) <= 0
                      /\ (DCmp(score(c), score(best)) = 0 /\ c # best)
                            => FirstSeen(best) < FirstSeen(c)

\* a call whose tier 1 holds the 7-Eleven and the FamilyMart of one building:
\* both have the lowest score, and the 7-Eleven, met first, is returned
C22_Witness ==
    /\ LocateReturned
    /\ IsSome(Val(loc_result).value)
    /\ LastTier = 1
    /\ {p.place_id : p \in CandidatesOfTier(1)} = {"s1", "f2", "b2"}
    /\ Val(Val(loc_result).value).place_id = "s1"
    /\ Val(Val(loc_result).value).search_keyword = "7-Eleven"



\* ---------------------------------------------------------------------------
\* C23: no large-format venue is returned
\* ---------------------------------------------------------------------------

\* the names of the worlds that match the large-format exclusion list
\* (supercenter, mall, plaza)
LargeFormatNames == {"Big C Supercenter", "Central Festival Mall", "Lotus Go Fresh Plaza"}

\* C23: neither the tiered locate nor the area search of the agent returns a
\* venue whose name matches the large-format exclusion list, whichever query
\* found it
C23_NoLargeFormatReturned ==
    /\ (LocateReturned /\ IsSome(Val(loc_result).value)) =>
          Val(Val(loc_result).value).name \notin LargeFormatNames
    /\ (AgentReturned /\ Val(ag_result).value.search_status # "not_found") =>
          Val(ag_result).value.poi_name \notin LargeFormatNames



\* ---------------------------------------------------------------------------
\* C24: the POI cache is scoped to one run
\* ---------------------------------------------------------------------------

\* C24: when a report run starts, with its empty exclusion set and before
\* its first zone is looked up, the POI cache holds no entry: nothing
\* memoized by an earlier run of the generator is left to be returned
C24_CacheEmptyAtRunStart ==
    (/\ IsSome(run_env)
     /\ Val(run_env).runner = "report"
     /\ run_pc = "running"
     /\ run_index = 0) =>
        /\ used_place_ids = {}
        /\ DOMAIN poi_cache = {}



---------------------------------------------------------------------------
(* Agent 3: agent3_batch_processor.analyze_residential_peak_hours.  A day  *)
(* of the analysis is its day_info (day_int, day_text, day_mean) and its   *)
(* busy_hours list.                                                        *)

DayText == <<"Monday", "Tuesday", "Wednesday", "Thursday", "Friday", "Saturday", "Sunday">>

BusyDay(day_int, busy_hours, day_mean) ==
    [ day_int |-> day_int, day_text |-> DayText[day_int + 1], busy_hours |-> busy_hours,
      day_mean |-> day_mean ]

\* besttime_data: None or {} ("none"), an object without the key 'analysis'
\* ("no_key"), and an object whose 'analysis' is null or a list of days
NoBestTime   == [kind |-> "none", analysis |-> <<>>]
NoAnalysis   == [kind |-> "no_key", analysis |-> <<>>]
NullAnalysis == [kind |-> "null", analysis |-> <<>>]
WeekAnalysis(days) == [kind |-> "list", analysis |-> days]

\* the profile returned without an analysis
NoDataProfile ==
    [ Residential_Peak_Weekday |-> "No data", Residential_Peak_Weekend |-> "No data",
      Best_Sales_Day |-> "No data", Best_Knockdoor_Time |-> "No data",
      Residential_Activity |-> "No data" ]

\* [hour for hour in busy_hours if 6 <= hour <= 18]
business_hours_busy(busy_hours) ==
    LET InWindow(hour) == 6 <= hour /\ hour <= 18
    IN  SelectSeq(busy_hours, InWindow)

RECURSIVE PeakOfDays(_, _)
\* the business-hour busy hours of the days of a group, in analysis order
PeakOfDays(analysis, group) ==
    IF analysis = <<>> THEN <<>>
    ELSE (IF Head(analysis).day_int \in group
          THEN business_hours_busy(Head(analysis).busy_hours) ELSE <<>>)
         \o PeakOfDays(Tail(analysis), group)

RECURSIVE CountHours(_, _)
\* hour_counts[hour] = hour_counts.get(hour, 0) + 1, in insertion order
CountHours(hour_counts, hours_list) ==
    IF hours_list = <<>> THEN hour_counts
    ELSE LET hour == Head(hours_list)
             seen == \E i \in 1..Len(hour_counts) : hour_counts[i][1] = hour
             next == IF seen
                     THEN [i \in 1..Len(hour_counts) |->
                             IF hour_counts[i][1] = hour
                             THEN <<hour, hour_counts[i][2] + 1>> ELSE hour_counts[i]]
                     ELSE Append(hour_counts, <<hour, 1>>)
         IN  CountHours(next, Tail(hours_list))

\* the three hours taken from the front of the insertion order, unsorted
top_hours_unsorted(hour_counts) == HeadN(hour_counts, 3)

\* sorted(hour_counts.items(), key=count, reverse=True)[:3]
top_hours(hour_counts) == HeadN(SortByBusy(hour_counts), 3)

\* get_residential_peak_hours(hours_list)
get_residential_peak_hours(hours_list) ==
    IF hours_list = <<>> THEN "No peak hours found"
    ELSE LET top == top_hours(CountHours(<<>>, hours_list))
         IN  JoinComma(FormatHours([i \in 1..Len(top) |-> top[i][1]]))

\* max(high_activity_days, key=store_activity)['day']: the first day of the
\* highest day_mean
best_sales_day(analysis) ==
    analysis[CHOOSE i \in 1..Len(analysis) :
               /\ \A j \in 1..Len(analysis) : analysis[j].day_mean <= analysis[i].day_mean
               /\ \A j \in 1..(i - 1) : analysis[j].day_mean < analysis[i].day_mean].day_text

\* avg_store_activity > 60 / > 30, the average taken over the days
residential_activity(analysis) ==
    LET total == SumSeq([i \in 1..Len(analysis) |-> analysis[i].day_mean])
    IN  IF total > 60 * Len(analysis) THEN "High"
        ELSE IF total > 30 * Len(analysis) THEN "Medium"
        ELSE "Low"

analyze_residential_peak_hours(besttime_data) ==
    IF besttime_data.kind # "list" \/ besttime_data.analysis = <<>> THEN NoDataProfile
    ELSE LET analysis == besttime_data.analysis
             weekday_residential_peak == PeakOfDays(analysis, 0..4)
             weekend_residential_peak == PeakOfDays(analysis, {5, 6})
         IN  [ Residential_Peak_Weekday |->
                   get_residential_peak_hours(weekday_residential_peak),
               Residential_Peak_Weekend |->
                   get_residential_peak_hours(weekend_residential_peak),
               Best_Sales_Day |-> best_sales_day(analysis),
               Best_Knockdoor_Time |->
                   get_residential_peak_hours(weekday_residential_peak
                                              \o weekend_residential_peak),
               Residential_Activity |-> residential_activity(analysis) ]

---------------------------------------------------------------------------
(* Specification SpecResidential: analyze_residential_peak_hours applied   *)
(* to one response of the provider                                         *)

MaxDays == 2        \* days of the analysis

\* busy-hour lists of a day, ascending; 5 and 19 lie outside the window
BusyLists == { <<>>, <<5, 19>>, <<7, 12, 17, 18>>, <<17, 18, 19>>, <<12, 18>> }

BusyDays == { BusyDay(d, b, m) : d \in {0, 4, 5, 6}, b \in BusyLists, m \in {20, 70} }

ResidentialInputs ==
    {NoBestTime, NoAnalysis, NullAnalysis}
    \cup { WeekAnalysis(days) : days \in UNION { [1..n -> BusyDays] : n \in 0..MaxDays } }

InitResidential ==
    /\ IdleScore
    /\ IdleProc
    /\ IdlePeak
    /\ IdleTiming
    /\ IdleLoc
    /\ IdleRun
    /\ IdleGrid
    /\ IdleAgent
    /\ IdleEnh
    /\ \E besttime_data \in ResidentialInputs : res_args = Some(besttime_data)
    /\ res_result = None

AnalyzeResidential ==
    /\ IsSome(res_args)
    /\ res_result = None
    /\ res_result' = Some(analyze_residential_peak_hours(Val(res_args)))
    /\ UNCHANGED <<res_args, notRes>>

NextResidential == AnalyzeResidential

SpecResidential == InitResidential /\ [][NextResidential]_vars

\* ---------------------------------------------------------------------------
\* C25: residential peaks are busy hours of the right days, inside 6..18
\* ---------------------------------------------------------------------------

\* the hours inside 6..18 that some day of the group lists as busy
GroupHours(group) ==
    { h \in 6..18 :
        \E i \in 1..Len(Val(res_args).analysis) :
            /\ Val(res_args).analysis[i].day_int \in group
            /\ h \in Range(Val(res_args).analysis[i].busy_hours) }

\* the number of days of the group that list the hour as busy
DaysListing(group, h) ==
    Cardinality({ i \in 1..Len(Val(res_args).analysis) :
                    /\ Val(res_args).analysis[i].day_int \in group
                    /\ h \in Range(Val(res_args).analysis[i].busy_hours) })

\* the peaks of a group are min(3, number of candidate hours) distinct
\* candidate hours, none listed by fewer days than a candidate left out
PeaksOfGroup(peaks, group) ==
    LET n == Min(3, Cardinality(GroupHours(group)))
    IN  IF n = 0 THEN peaks = "No peak hours found"
        ELSE \E chosen \in [1..n -> GroupHours(group)] :
                /\ \A i, j \in 1..n : i # j => chosen[i] # chosen[j]
                /\ \A i \in 1..n : \A u \in GroupHours(group) \ Range(chosen) :
                      DaysListing(group, chosen[i]) >= DaysListing(group, u)
                /\ peaks = JoinComma(FormatHours(chosen))

\* C25: every reported peak hour is an hour inside 6..18 that the provider
\* lists as busy for a day of the group (days 0-4 for the weekday peaks, days
\* 5-6 for the weekend peaks); at most three hours are reported per group,
\* those listed by the most days; a missing or empty analysis gives the
\* 'No data' profile
C25_ResidentialPeaksAreBusyHours ==
    IsSome(res_result) =>
        IF Val(res_args).kind # "list" \/ Val(res_args).analysis = <<>>
        THEN Val(res_result) = NoDataProfile
        ELSE /\ PeaksOfGroup(Val(res_result).Residential_Peak_Weekday, 0..4)
             /\ PeaksOfGroup(Val(res_result).Residential_Peak_Weekend, {5, 6})

\* Friday lists 7, 12, 17, 18 and Monday 12, 18: the weekday peaks are 12
\* and 18, listed twice, and 7; Saturday's hours are not among them
C25_Witness ==
    /\ IsSome(res_result)
    /\ Val(res_args) = WeekAnalysis(<< BusyDay(4, <<7, 12, 17, 18>>, 20),
                                       BusyDay(0, <<12, 18>>, 70) >>)
    /\ Val(res_result).Residential_Peak_Weekday = "12:00, 18:00, 07:00"
    /\ Val(res_result).Residential_Peak_Weekend = "No peak hours found"



\* ---------------------------------------------------------------------------
\* C26: the best day has the highest mean over the business-hour window
\* ---------------------------------------------------------------------------

\* C26: the best day of the report's timing path is the earliest day, in
\* Monday..Sunday order, whose mean intensity over the business-hour window
\* of the peaks and the activity level (6..22) is the highest among the days
\* with data in that window, and the default day Wednesday when no day has
\* data in the window
C26_BestDayHighestMean ==
    (/\ IsSome(tm_call)
     /\ Val(tm_call).entry = "report"
     /\ Val(tm_call).venue_name # ""
     /\ Val(tm_call).has_key
     /\ HasAnalysis(Val(tm_call))
     /\ Val(Val(Val(tm_call).response.body).analysis).fmt = "dict") =>
        LET analysis == Val(Val(Val(tm_call).response.body).analysis)
            items(i) == BusinessItems(DayData(analysis, WEEK[i]))
            total(i) == SumSeq([k \in 1..Len(items(i)) |-> items(i)[k][2]])
            with_data == { i \in 1..Len(WEEK) : HasDay(analysis, WEEK[i]) /\ items(i) # <<>> }
            \* mean(i) < mean(j)
            Lower(i, j) == total(i) * Len(items(j)) < total(j) * Len(items(i))
        IN  IF with_data = {} THEN Val(tm_profile).best_day = "Wednesday"
            ELSE \E i \in with_data :
                    /\ Val(tm_profile).best_day = WEEK[i]
                    /\ \A j \in with_data : ~Lower(i, j)
                    /\ \A j \in with_data : j < i => Lower(j, i)



---------------------------------------------------------------------------
(* Specification SpecSample: one L2DatabaseProcessor whose load_data may   *)
(* be called with a sample size                                            *)

\* load_data(sample_size): read_csv(nrows=sample_size) reads the first
\* sample_size rows of the file
load_data_sample(file, sample_size) == load_data(HeadN(file, sample_size))

InitSample ==
    /\ IdleScore
    /\ IdlePeak
    /\ IdleTiming
    /\ IdleLoc
    /\ IdleRun
    /\ IdleGrid
    /\ IdleAgent
    /\ IdleRes
    /\ IdleEnh
    /\ csv \in RunFiles
    /\ df = None
    /\ happy_blocks_df = None
    /\ sales_zones_df = None
    /\ prioritized = None
    /\ last_error = "none"
    /\ proc_hist = None

LoadDataSample ==
    /\ \E sample_size \in 1..MaxUnits :
         df' = Some([scored |-> FALSE, rows |-> load_data_sample(csv, sample_size)])
    /\ last_error' = "none"
    /\ UNCHANGED <<csv, proc_hist, happy_blocks_df, sales_zones_df, prioritized, notProc>>

NextSample == NextProc \/ LoadDataSample

SpecSample == InitSample /\ [][NextSample]_vars

\* ---------------------------------------------------------------------------
\* C27: the zone table is the aggregation of the area table held
\* ---------------------------------------------------------------------------

\* C27: whenever sales_zones_df is set, it is the zone aggregation of the
\* happy_blocks_df the processor holds at that moment
C27_ZonesOfCurrentBlocks ==
    IsSome(sales_zones_df) =>
        /\ IsSome(happy_blocks_df)
        /\ Val(sales_zones_df) = create_sales_zones(Val(happy_blocks_df))



\* ---------------------------------------------------------------------------
(* Specification SpecStages: one L2DatabaseProcessor with every stage and  *)
(* every reader of its tables callable in any order                        *)

\* get_prioritized_villages(top_n): the area table sorted by Priority_Score,
\* descending; `if top_n:` is false for None and for 0
get_prioritized_villages(blocks, top_n) ==
    IF IsSome(top_n) /\ Val(top_n) # 0
    THEN HeadN(SortByScore(blocks), Val(top_n))
    ELSE SortByScore(blocks)

GetPrioritizedVillages ==
    /\ IsSome(happy_blocks_df)
    /\ \E top_n \in TopNs :
         prioritized' = Some([ top_n |-> top_n,
                               zones |-> get_prioritized_villages(Val(happy_blocks_df), top_n) ])
    /\ last_error' = "none"
    /\ UNCHANGED <<csv, proc_hist, df, happy_blocks_df, sales_zones_df, notProc>>

GetPrioritizedVillagesRaises ==
    /\ ~IsSome(happy_blocks_df)
    /\ last_error' = "ValueError"
    /\ UNCHANGED <<csv, proc_hist, df, happy_blocks_df, sales_zones_df, prioritized, notProc>>

NextStages ==
    \/ NextProc
    \/ GetPrioritizedVillages
    \/ GetPrioritizedVillagesRaises
    \/ ExportEnhancedDatabase
    \/ ExportEnhancedDatabaseFails
    \/ ExportEnhancedDatabaseRaises

SpecStages == InitProc /\ [][NextStages]_vars

\* ---------------------------------------------------------------------------
\* C28: the stage order is enforced with ValueError and no state change
\* ---------------------------------------------------------------------------

\* a call that raised ValueError and left the three tables as they were
RefusedUnchanged ==
    /\ last_error' = "ValueError"
    /\ UNCHANGED <<df, happy_blocks_df, sales_zones_df>>

\* C28: create_sales_zones, get_prioritized_villages and
\* export_enhanced_database called before aggregate_happy_blocks, and
\* get_prioritized_sales_zones called before create_sales_zones, raise
\* ValueError and leave df, happy_blocks_df and sales_zones_df as they were;
\* called after their prerequisite they succeed
C28_StageOrderEnforced ==
    [][ /\ (CreateSalesZones \/ CreateSalesZonesRaises) =>
              IF IsSome(happy_blocks_df) THEN last_error' = "none" ELSE RefusedUnchanged
        /\ (GetPrioritizedVillages \/ GetPrioritizedVillagesRaises) =>
              IF IsSome(happy_blocks_df) THEN last_error' = "none" ELSE RefusedUnchanged
        /\ (ExportEnhancedDatabase \/ ExportEnhancedDatabaseFails
                \/ ExportEnhancedDatabaseRaises) =>
              IF IsSome(happy_blocks_df) THEN last_error' = "none" ELSE RefusedUnchanged
        /\ (GetPrioritizedSalesZones \/ GetPrioritizedSalesZonesRaises) =>
              IF IsSome(sales_zones_df) THEN last_error' = "none" ELSE RefusedUnchanged
      ]_vars



\* ---------------------------------------------------------------------------
(* Specification SpecEnhance: process_poi_and_timing_analysis(limit) of    *)
(* the enhanced report generators, one loop iteration per step             *)

MaxBlocks == 3
DefaultLimit == 50

\* the values of happy_blocks_data in dict order (groupby('Happy_Block')
\* yields the keys ascending), each with its top_priority_score
BlockScores == 1..3
BlockTables ==
    UNION { [1..n -> BlockScores] : n \in 0..MaxBlocks }
BlockData(scores) ==
    [i \in 1..Len(scores) |-> [happy_block |-> i, top_priority_score |-> scores[i]]]

\* the limit arguments: None (the default) and 0..MaxBlocks + 1
EnhLimits == {None} \cup {Some(n) : n \in 0..(MaxBlocks + 1)}

\* sorted(..., key=top_priority_score, reverse=True): descending, blocks of
\* equal score in their original order
RECURSIVE InsertByTopScore(_, _)
InsertByTopScore(sorted, b) ==
    IF sorted = <<>> THEN <<b>>
    ELSE IF b.top_priority_score > Head(sorted).top_priority_score THEN <<b>> \o sorted
    ELSE <<Head(sorted)>> \o InsertByTopScore(Tail(sorted), b)

RECURSIVE sorted_blocks(_)
sorted_blocks(blocks) ==
    IF blocks = <<>> THEN <<>>
    ELSE InsertByTopScore(sorted_blocks(SubSeq(blocks, 1, Len(blocks) - 1)),
                          blocks[Len(blocks)])

\* sorted_blocks[:limit or 50], limit >= 0 or None: `limit or 50` is 50 for
\* None and for 0
select_top_blocks(blocks, lim) ==
    HeadN(sorted_blocks(blocks),
          IF IsSome(lim) /\ Val(lim) # 0 THEN Val(lim) ELSE DefaultLimit)

\* the record appended for a block: {**poi_result, **timing_info,
\* 'processing_status': 'success'} or {**block_data, ..., 'processing_status':
\* 'error'}; both keep the block's own fields
EnhancedRecord(block, status) ==
    [ happy_block        |-> block.happy_block,
      top_priority_score |-> block.top_priority_score,
      processing_status  |-> status ]

InitEnhance ==
    /\ IdleScore
    /\ IdleProc
    /\ IdlePeak
    /\ IdleTiming
    /\ IdleLoc
    /\ IdleRun
    /\ IdleGrid
    /\ IdleAgent
    /\ IdleRes
    /\ \E scores \in BlockTables : happy_blocks_data = BlockData(scores)
    /\ enh_limit \in EnhLimits
    /\ top_blocks = <<>>
    /\ enhanced_blocks = <<>>
    /\ enh_pc = "idle"

\* entry of process_poi_and_timing_analysis: sort, select, empty output
StartProcessing ==
    /\ enh_pc = "idle"
    /\ top_blocks' = select_top_blocks(happy_blocks_data, enh_limit)
    /\ enhanced_blocks' = <<>>
    /\ enh_pc' = "loop"
    /\ UNCHANGED <<happy_blocks_data, enh_limit, notEnh>>

\* one iteration whose POI and timing steps return
ProcessBlock ==
    /\ enh_pc = "loop"
    /\ Len(enhanced_blocks) < Len(top_blocks)
    /\ enhanced_blocks' = Append(enhanced_blocks,
           EnhancedRecord(top_blocks[Len(enhanced_blocks) + 1], "success"))
    /\ UNCHANGED <<happy_blocks_data, enh_limit, top_blocks, enh_pc, notEnh>>

\* one iteration whose POI or timing step raises: the except branch appends
\* the error record and continues
ProcessBlockError ==
    /\ enh_pc = "loop"
    /\ Len(enhanced_blocks) < Len(top_blocks)
    /\ enhanced_blocks' = Append(enhanced_blocks,
           EnhancedRecord(top_blocks[Len(enhanced_blocks) + 1], "error"))
    /\ UNCHANGED <<happy_blocks_data, enh_limit, top_blocks, enh_pc, notEnh>>

\* end of the loop: return enhanced_blocks
ReturnEnhanced ==
    /\ enh_pc = "loop"
    /\ Len(enhanced_blocks) = Len(top_blocks)
    /\ enh_pc' = "done"
    /\ UNCHANGED <<happy_blocks_data, enh_limit, top_blocks, enhanced_blocks, notEnh>>

NextEnhance ==
    \/ StartProcessing
    \/ ProcessBlock
    \/ ProcessBlockError
    \/ ReturnEnhanced

SpecEnhance == InitEnhance /\ [][NextEnhance]_vars

\* ---------------------------------------------------------------------------
\* C29: one record per selected block, in ranking order, min(limit, n) records
\* ---------------------------------------------------------------------------

\* C29: the returned list holds exactly one record per selected block, in
\* descending top_priority_score order, each with status 'success' or
\* 'error', and for every limit >= 0 its length is min(limit, number of
\* blocks)
C29_OneRecordPerSelectedBlock ==
    enh_pc = "done" =>
        /\ Len(enhanced_blocks) = Len(top_blocks)
        /\ \A i \in 1..Len(enhanced_blocks) :
             /\ enhanced_blocks[i].happy_block = top_blocks[i].happy_block
             /\ enhanced_blocks[i].processing_status \in {"success", "error"}
        /\ \A i, j \in 1..Len(enhanced_blocks) :
             i < j => enhanced_blocks[i].top_priority_score
                          >= enhanced_blocks[j].top_priority_score
        /\ \A i, j \in 1..Len(enhanced_blocks) :
             i # j => enhanced_blocks[i].happy_block # enhanced_blocks[j].happy_block
        /\ IsSome(enh_limit) =>
             Len(enhanced_blocks) = Min(Val(enh_limit), Len(happy_blocks_data))



\* ---------------------------------------------------------------------------
\* C30: a locate call ends after a bounded number of queries, none repeated
\* ---------------------------------------------------------------------------

\* the queries of the tiered locate: 6 + 6 + 5
TotalSearches == SumSeq([t \in 1..Len(search_strategies) |-> NumSearches(t)])

\* query a was sent before query b in the order of the loops: an earlier
\* tier or centre, or an earlier search of the same one
QueryBefore(a, b) == a[1] < b[1] \/ (a[1] = b[1] /\ a[2] < b[2])

\* every entry of the log comes after its predecessor in loop order, so no
\* query occurs twice
NeverReissued(log) == \A i \in 1..(Len(log) - 1) : QueryBefore(log[i], log[i + 1])

\* C30 (safety): the tiered locate sends each (tier, keyword) query at most
\* once, at most 17 in total; the area search visits the anchor and at most
\* 16 neighbour centres, each at most once, and sends each keyword query at
\* most once per centre; a failed query is in the log once and the queries
\* after it are later ones
C30_QueriesBounded ==
    /\ TotalSearches = 17
    /\ Len(loc_log) <= TotalSearches
    /\ NeverReissued(loc_log)
    /\ \A q \in loc_failed : Cardinality({i \in 1..Len(loc_log) : loc_log[i] = q}) = 1
    /\ Len(ag_blocks) <= 16
    /\ \A i, j \in 1..Len(ag_blocks) : i # j => ag_blocks[i].id # ag_blocks[j].id
    /\ Len(ag_log) <= (1 + Len(ag_blocks)) * Len(agent_search_strategies)
    /\ NeverReissued(ag_log)
    /\ \A i \in 1..Len(ag_log) : ag_log[i][1] \in 0..Len(ag_blocks)
    /\ \A q \in ag_failed : Cardinality({i \in 1..Len(ag_log) : ag_log[i] = q}) = 1

\* how far a call has come: the queries sent, the tier reached and the
\* position in the function; at most 17 + 3 + 2 for the tiered locate and
\* 17 * 14 + 2 for the area search
PcRank(pc) == IF pc = "done" THEN 2 ELSE IF pc \in {"search", "nearby"} THEN 1 ELSE 0
CallMeasure ==
    Len(loc_log) + loc_tier + PcRank(loc_pc) + Len(ag_log) + PcRank(ag_pc)

CallEnded == loc_pc = "done" \/ ag_pc = "done"

\* the call can take its next step: the guard of one of its steps holds
\* (the tiered locate at its entry, at a search of a tier that exists or
\* at the selection after the last search of that tier; the area search at
\* the anchor or at the next neighbour, with some set of failing queries,
\* or at the not-found return after the last neighbour)
NextStepReady ==
    \/ loc_pc = "start"
    \/ /\ loc_pc = "search"
       /\ loc_tier \in 1..Len(search_strategies)
       /\ loc_search \in 1..(NumSearches(loc_tier) + 1)
    \/ /\ ag_pc = "start"
       /\ Val(ag_call).has_key => FailuresAt(0) # {}
    \/ /\ ag_pc = "nearby"
       /\ ag_index <= Len(ag_blocks) => FailuresAt(ag_index) # {}

\* C30: every locate call terminates after a bounded number of provider
\* queries with no retry: all along the call the queries sent are bounded
\* and never re-issued, a call that has not ended can always take its next
\* step, and every step brings it nearer to its end (it sends queries not
\* sent before, moves to the next tier or centre, or returns)
C30_TerminatesWithoutRetry ==
    /\ []C30_QueriesBounded
    /\ [](~CallEnded => NextStepReady)
    /\ [](CallMeasure <= (1 + 16) * Len(agent_search_strategies) + 2)
    /\ [][CallMeasure' > CallMeasure]_vars

\* a tiered locate that sent all 17 queries, one of which failed, and
\* ended with the not-found result
C30_Witness ==
    /\ LocateReturned
    /\ Len(loc_log) = TotalSearches
    /\ loc_failed # {}
    /\ Val(loc_result).value = None

====
